---------------------------- MODULE Spec2Model ----------------------------
(***************************************************************************)
(* Model of the customer-insight-engine pipeline:                          *)
(*   - the synthetic entity generator  (src/healthcare_data_gen.py)        *)
(*   - the context document builder    (src/complete_rag_creator.py)       *)
(*   - the presentation layer          (src/app.py)                        *)
(*   - the narrative content generator (src/complete_data_generator.py)    *)
(* Each stage has its own specification over the shared variables:         *)
(*   SpecCust  generate_customers, one loop iteration per step             *)
(*   SpecGen   the dependent tables generated from a customer table        *)
(*   SpecRag   save_all_documents on input tables                          *)
(*   SpecApp   the Streamlit script, one script run per user event         *)
(*   SpecNarrative, SpecTelemetry, SpecOutcomes                            *)
(*             functions of generate_complete_dataset                      *)
(*   SpecSeeded  two seeded runs of the entity generator                   *)
(*   SpecFlow  the flat files the four scripts read and write              *)
(*   SpecCharts  the two chart functions of the dashboard tab              *)
(* SpecPortfolio, SpecRecent, SpecBands and SpecLabels run SpecApp,        *)
(* SpecRag and SpecGen on other input tables.                              *)
(***************************************************************************)
EXTENDS Integers, Sequences, FiniteSets, TLC

VARIABLES
    \* ---- entity generator (HealthcareSaaSDataGenerator) ----
    customers,          \* rows appended by generate_customers
    interactions,       \* rows appended by generate_interactions
    calls,              \* rows appended by generate_sales_calls
    feature_requests,   \* rows appended by generate_feature_requests
    gen_pc,             \* position in generate_all_healthcare_data
    \* ---- context document builder (CompleteHealthcareRAGGenerator) ----
    rag_customers,      \* self.customers
    rag_interactions,   \* self.interactions
    rag_calls,          \* self.calls
    rag_requests,       \* self.feature_requests
    documents,          \* lines of healthcare_rag_documents.jsonl
    rag_runs,           \* "none" before the first run, then "once", then "again"
    \* ---- presentation layer (app.py) ----
    csv_files,          \* the csv files on disk: present or not, and the customer rows
    gemini_env,         \* the environment of init_gemini: "no_key", "init_raises", "ok"
    gemini_model,       \* result of init_gemini: "model" or "None"
    customers_df,       \* result of load_data: loaded or not, and the rows
    messages,           \* st.session_state.messages
    current_context,    \* st.session_state.current_context
    analysis_scope,     \* widget state of the "Focus on:" radio
    selected_customer,  \* widget state of the "Select Customer:" selectbox
    event,              \* the user event the last script run served
    outcome,            \* what the chat handler did in the last script run
    errors,             \* st.error boxes shown by the last script run
    model_calls,        \* generate_content calls made by the last script run
    rendered,           \* sections drawn by the last script run
    crashed,            \* the last script run ended in an uncaught exception
    last_prompt,        \* context block and question of the last model call
    \* ---- narrative content generator (CompleteCustomerDataGenerator) ----
    transcripts,        \* rows returned by generate_call_transcripts
    emails,             \* rows returned by generate_email_threads
    nar_pc,             \* position in generate_complete_dataset
    \* ---- seeded runs of the entity generator ----
    seed_cfg,           \* the seeds of the two random sources and the customer count
    np_random,          \* state of numpy's global generator
    py_random,          \* state of the random module's generator
    written,            \* the csv tables written by each finished run
    \* ---- the flat files of the four stages ----
    disk,               \* for each file name, the stage that wrote it last
    file_reads,         \* the files each stage has opened for reading
    run_log,            \* the stages run so far, in order
    \* ---- the dashboard charts of the presentation layer ----
    chart_rows,         \* the customers_df argument of the chart functions
    health_category,    \* the 'health_category' column pd.cut adds to it
    health_counts,      \* health_counts of create_health_distribution_chart
    risk_categories,    \* risk_categories of create_mrr_at_risk_chart
    \* ---- telemetry and outcomes of the narrative content generator ----
    telemetry,          \* rows appended by generate_usage_telemetry
    outcomes,           \* rows appended by generate_outcomes_tracking
    nar_i               \* position of the loop over customers_df.iterrows()

genVars == <<customers, interactions, calls, feature_requests, gen_pc>>
ragVars == <<rag_customers, rag_interactions, rag_calls, rag_requests,
             documents, rag_runs>>
appVars == <<csv_files, gemini_env, gemini_model, customers_df, messages,
             current_context, analysis_scope, selected_customer, event,
             outcome, errors, model_calls, rendered, crashed, last_prompt>>
narVars == <<transcripts, emails, nar_pc>>
seedVars == <<seed_cfg, np_random, py_random, written>>
flowVars == <<disk, file_reads, run_log>>
chartVars == <<chart_rows, health_category, health_counts, risk_categories>>
usageVars == <<telemetry, outcomes, nar_i>>
sideVars == <<flowVars, chartVars, usageVars>>
vars == <<genVars, ragVars, appVars, narVars, seedVars, sideVars>>

\* ------------------------------------------------------------------------
\* Helpers on sequences
\* ------------------------------------------------------------------------
Range(s) == {s[i] : i \in DOMAIN s}

RECURSIVE SeqsUpTo(_, _)
SeqsUpTo(S, n) ==
    IF n = 0 THEN {<<>>}
    ELSE LET shorter == SeqsUpTo(S, n - 1)
         IN  shorter \cup {Append(s, x) : s \in {t \in shorter : Len(t) = n - 1}, x \in S}

SelectRows(table, Keep(_)) == SelectSeq(table, Keep)

Count(table, Keep(_)) == Len(SelectSeq(table, Keep))

\* ------------------------------------------------------------------------
\* Stages that are idle in a specification keep these values
\* ------------------------------------------------------------------------
GenIdle ==
    /\ customers = <<>> /\ interactions = <<>> /\ calls = <<>>
    /\ feature_requests = <<>> /\ gen_pc = [op |-> "idle", i |-> 0]

RagIdle ==
    /\ rag_customers = <<>> /\ rag_interactions = <<>> /\ rag_calls = <<>>
    /\ rag_requests = <<>> /\ documents = <<>> /\ rag_runs = "idle"

NarIdle ==
    /\ transcripts = <<>> /\ emails = <<>> /\ nar_pc = "idle"

Unseeded == 0 - 1

SeedIdle ==
    /\ seed_cfg = [np |-> 0, py |-> 0, n |-> 0]
    /\ np_random = Unseeded /\ py_random = Unseeded /\ written = <<>>

Absent == "absent"

FlowIdle ==
    /\ disk = <<>> /\ file_reads = {} /\ run_log = <<>>

ChartIdle ==
    /\ chart_rows = <<>> /\ health_category = <<>>
    /\ health_counts = <<>> /\ risk_categories = <<>>

UsageIdle ==
    /\ telemetry = <<>> /\ outcomes = <<>> /\ nar_i = 0

SideIdle == FlowIdle /\ ChartIdle /\ UsageIdle

NoData == [loaded |-> FALSE, rows |-> <<>>]
NoContext == <<"None">>
NoPrompt == [context |-> [kind |-> "none"], question |-> "none"]

AppIdle ==
    /\ csv_files = [present |-> FALSE, rows |-> <<>>]
    /\ gemini_env = "no_key" /\ gemini_model = "None" /\ customers_df = NoData
    /\ messages = <<>> /\ current_context = NoContext
    /\ analysis_scope = "Portfolio Overview" /\ selected_customer = NoContext
    /\ event = "idle" /\ outcome = "none" /\ errors = <<>> /\ model_calls = 0
    /\ rendered = {} /\ crashed = FALSE /\ last_prompt = NoPrompt

\* ========================================================================
\* 1. Synthetic entity generator (src/healthcare_data_gen.py)
\* ========================================================================

\* Number of customers the generator is asked for (300 in the source).
n_customers == 2

\* Base of the numeric part of 'HC-<n>', 'TICKET-<n>', 'CALL-<n>', 'FR-<n>'.
CustomerIdBase == 1000
TicketIdBase == 5000
CallIdBase == 2000
RequestIdBase == 1000

\* sales calls generated per customer (default argument)
calls_per_customer == 2

org_types == <<"Hospital System", "Clinic Network", "Private Practice",
               "Specialty Center", "Urgent Care", "Telehealth Provider">>

\* np.random.randint(lo, hi) draws from the half-open range lo..hi-1; the
\* model draws its two extremes.
NpRandIntInclusive(lo, hi) == {lo, hi}

NpRandInt(lo, hi) == {lo, hi - 1}

\* Draws of np.random.randint(40, 100) for the health score: the extremes
\* and one value of the middle band.
HealthDraws == NpRandInt(40, 100) \cup {60}

\* Draws of np.random.randint(1, 48) for the tenure.
TenureDraws == NpRandInt(1, 48)

\* Draws of np.random.poisson(4): no ticket or one ticket.
PoissonDraws == {0, 1}

\* f'HC-{i+1000}' for loop index i (0-based)
CustomerId(i) == <<"HC", i + CustomerIdBase>>

\* The MRR range and the segment of the org-type branch.
MrrDraws(org_type) ==
    IF org_type = "Hospital System" THEN NpRandInt(15000, 80000)
    ELSE IF org_type \in {"Clinic Network", "Specialty Center"}
         THEN NpRandInt(5000, 25000)
         ELSE NpRandInt(500, 8000)

Segment(org_type) ==
    IF org_type = "Hospital System" THEN "Enterprise"
    ELSE IF org_type \in {"Clinic Network", "Specialty Center"}
         THEN "Mid-Market"
         ELSE "SMB"

Max(a, b) == IF a >= b THEN a ELSE b
Min(a, b) == IF a <= b THEN a ELSE b

\* health_score after the implementation-phase adjustment
AdjustHealth(tenure, health_score) ==
    IF tenure < 6 THEN Max(30, health_score - 20) ELSE health_score

\* One row of generate_customers for loop index i and the given draws.
Customer(i, org_type, mrr, tenure, health_score) ==
    [customer_id   |-> CustomerId(i),
     org_type      |-> org_type,
     segment       |-> Segment(org_type),
     mrr           |-> mrr,
     tenure_months |-> tenure,
     health_score  |-> AdjustHealth(tenure, health_score)]

\* generate_customers: one iteration of `for i in range(self.n_customers)`
GenCustomer ==
    /\ gen_pc.op = "customers"
    /\ Len(customers) < n_customers
    /\ \E k \in DOMAIN org_types :
         \E mrr \in MrrDraws(org_types[k]), tenure \in TenureDraws, h \in HealthDraws :
            customers' = Append(customers,
                                Customer(Len(customers), org_types[k], mrr, tenure, h))
    /\ UNCHANGED <<interactions, calls, feature_requests, gen_pc>>
    /\ UNCHANGED <<ragVars, appVars, narVars, seedVars, sideVars>>

\* generate_customers returns the table
GenCustomersReturn ==
    /\ gen_pc.op = "customers"
    /\ Len(customers) = n_customers
    /\ gen_pc' = [op |-> "customers_done", i |-> 0]
    /\ UNCHANGED <<customers, interactions, calls, feature_requests>>
    /\ UNCHANGED <<ragVars, appVars, narVars, seedVars, sideVars>>

InitCust ==
    /\ customers = <<>> /\ interactions = <<>> /\ calls = <<>>
    /\ feature_requests = <<>> /\ gen_pc = [op |-> "customers", i |-> 0]
    /\ RagIdle /\ AppIdle /\ NarIdle /\ SeedIdle /\ SideIdle

NextCust == GenCustomer \/ GenCustomersReturn

SpecCust == InitCust /\ [][NextCust]_vars

\* ---- the dependent tables ------------------------------------------------

\* Customer tables generate_customers can return, one per choice of the
\* health-score draws (the draws the dependent tables read); the other draws
\* are held at one value.
GeneratedCustomerTables ==
    {[i \in 1..n_customers |->
        Customer(i - 1, "Private Practice", 500, 47, h[i])] :
     h \in [1..n_customers -> HealthDraws]}

SentimentDrawsInclusive(health_score) ==
    IF health_score >= 70 THEN {"positive", "neutral", "satisfied"}
    ELSE IF health_score >= 50 THEN {"neutral", "concerned", "frustrated"}
         ELSE {"frustrated", "negative", "urgent"}

\* Sentiments np.random.choice can return for a customer's health score
SentimentDraws(health_score) ==
    IF health_score > 70 THEN {"positive", "neutral", "satisfied"}
    ELSE IF health_score > 50 THEN {"neutral", "concerned", "frustrated"}
         ELSE {"frustrated", "negative", "urgent"}

\* churn_risk_mentioned of a generated call
ChurnDraws(health_score) ==
    IF health_score < 60 THEN BOOLEAN ELSE {FALSE}

\* Number of requests a customer submits: none (random.random() <= 0.4) or
\* np.random.randint(1, 5) of them.
RequestCountDraws == {0} \cup NpRandInt(1, 5)

\* 'customer_id': customer['customer_id'] of a dependent row
RowCustomerIdByPosition(customer, position) == CustomerId(position)

RowCustomerId(customer, position) == customer.customer_id

\* generate_interactions: one iteration of the loop over customers_df
GenInteractions ==
    /\ gen_pc.op = "interactions"
    /\ gen_pc.i <= Len(customers)
    /\ LET customer == customers[gen_pc.i] IN
       \E n \in PoissonDraws :
         \E sentiment \in [1..n -> SentimentDraws(customer.health_score)] :
            interactions' = interactions \o
                [j \in 1..n |->
                    [interaction_id |-> <<"TICKET", Len(interactions) + (j - 1) + TicketIdBase>>,
                     customer_id    |-> RowCustomerId(customer, gen_pc.i),
                     sentiment      |-> sentiment[j]]]
    /\ gen_pc' = [gen_pc EXCEPT !.i = @ + 1]
    /\ UNCHANGED <<customers, calls, feature_requests>>
    /\ UNCHANGED <<ragVars, appVars, narVars, seedVars, sideVars>>

\* generate_sales_calls: one iteration of the loop over customers_df
GenSalesCalls ==
    /\ gen_pc.op = "calls"
    /\ gen_pc.i <= Len(customers)
    /\ LET customer == customers[gen_pc.i] IN
       \E churn \in [1..calls_per_customer -> ChurnDraws(customer.health_score)] :
          calls' = calls \o
              [j \in 1..calls_per_customer |->
                  [call_id              |-> <<"CALL", Len(calls) + (j - 1) + CallIdBase>>,
                   customer_id          |-> RowCustomerId(customer, gen_pc.i),
                   churn_risk_mentioned |-> churn[j]]]
    /\ gen_pc' = [gen_pc EXCEPT !.i = @ + 1]
    /\ UNCHANGED <<customers, interactions, feature_requests>>
    /\ UNCHANGED <<ragVars, appVars, narVars, seedVars, sideVars>>

\* generate_feature_requests: one iteration of the loop over customers_df
GenFeatureRequests ==
    /\ gen_pc.op = "requests"
    /\ gen_pc.i <= Len(customers)
    /\ LET customer == customers[gen_pc.i] IN
       \E n \in RequestCountDraws :
          feature_requests' = feature_requests \o
              [j \in 1..n |->
                  [request_id  |-> <<"FR", Len(feature_requests) + (j - 1) + RequestIdBase>>,
                   customer_id |-> RowCustomerId(customer, gen_pc.i)]]
    /\ gen_pc' = [gen_pc EXCEPT !.i = @ + 1]
    /\ UNCHANGED <<customers, interactions, calls>>
    /\ UNCHANGED <<ragVars, appVars, narVars, seedVars, sideVars>>

\* generate_all_healthcare_data: a generate_* call returns and the next starts;
\* after the last one the four tables are written with to_csv.
GenNextTable ==
    /\ gen_pc.op \in {"interactions", "calls", "requests"}
    /\ gen_pc.i = Len(customers) + 1
    /\ gen_pc' = [op |-> CASE gen_pc.op = "interactions" -> "calls"
                          [] gen_pc.op = "calls"        -> "requests"
                          [] gen_pc.op = "requests"     -> "done",
                  i  |-> 1]
    /\ UNCHANGED <<customers, interactions, calls, feature_requests>>
    /\ UNCHANGED <<ragVars, appVars, narVars, seedVars, sideVars>>

InitGen ==
    /\ customers \in GeneratedCustomerTables
    /\ interactions = <<>> /\ calls = <<>> /\ feature_requests = <<>>
    /\ gen_pc = [op |-> "interactions", i |-> 1]
    /\ RagIdle /\ AppIdle /\ NarIdle /\ SeedIdle /\ SideIdle

NextGen == GenInteractions \/ GenSalesCalls \/ GenFeatureRequests \/ GenNextTable

SpecGen == InitGen /\ [][NextGen]_vars

CustomerIds(table) == {table[k].customer_id : k \in DOMAIN table}

\* C5: every generated interaction, call and feature-request row carries the
\* customer_id of a row of the generated customer table.
C5_ReferentialConsistency ==
    /\ \A k \in DOMAIN interactions :
          interactions[k].customer_id \in CustomerIds(customers)
    /\ \A k \in DOMAIN calls :
          calls[k].customer_id \in CustomerIds(customers)
    /\ \A k \in DOMAIN feature_requests :
          feature_requests[k].customer_id \in CustomerIds(customers)

\* C5 witness: a finished run whose three tables each hold a row of the last
\* customer of the table.
C5_Witness ==
    /\ gen_pc.op = "done"
    /\ Len(customers) = n_customers
    /\ \E k \in DOMAIN interactions :
          interactions[k].customer_id = customers[n_customers].customer_id
    /\ \E k \in DOMAIN calls :
          calls[k].customer_id = customers[n_customers].customer_id
    /\ \E k \in DOMAIN feature_requests :
          feature_requests[k].customer_id = customers[n_customers].customer_id

\* C6: every generated customer has a health score in 0..100 and an MRR and
\* a segment inside the band of its organization type.
C6_HealthAndMrrBands ==
    \A k \in DOMAIN customers :
       LET c == customers[k] IN
       /\ c.health_score >= 0 /\ c.health_score <= 100
       /\ IF c.org_type = "Hospital System"
          THEN c.mrr >= 15000 /\ c.mrr <= 79999 /\ c.segment = "Enterprise"
          ELSE IF c.org_type \in {"Clinic Network", "Specialty Center"}
               THEN c.mrr >= 5000 /\ c.mrr <= 24999 /\ c.segment = "Mid-Market"
               ELSE c.mrr >= 500 /\ c.mrr <= 7999 /\ c.segment = "SMB"

\* C6 witness: a returned table holding a customer in the implementation
\* phase whose health score was lowered to the floor, and a hospital system
\* at the top of its MRR band.
C6_Witness ==
    /\ gen_pc.op = "customers_done"
    /\ \E k \in DOMAIN customers :
          customers[k].tenure_months < 6 /\ customers[k].health_score = 30
    /\ \E k \in DOMAIN customers :
          customers[k].org_type = "Hospital System" /\ customers[k].mrr = 79999

\* ========================================================================
\* 2. Context document builder (src/complete_rag_creator.py)
\* ========================================================================

\* Most tickets of the first customer in an input interactions table.
MaxTickets == 3

\* .head(10), .head(3), .head(5) of the profile
RecentInteractions == 10
RecentCalls == 3
RecentRequests == 5

\* Thresholds of the risk assessment
CriticalHealth == 50
AtRiskHealth == 70
NegativeSentimentLimit == 40
EscalationLimit == 2
RiskLevelLimit == 2

Take(s, n) == SubSeq(s, 1, Min(n, Len(s)))

\* Position of the first most recent row of a non-empty table.
Newest(table) ==
    CHOOSE k \in DOMAIN table :
       /\ \A j \in DOMAIN table : table[j].date <= table[k].date
       /\ \A j \in 1..(k - 1) : table[j].date < table[k].date

RemoveAt(s, k) == SubSeq(s, 1, k - 1) \o SubSeq(s, k + 1, Len(s))

\* .sort_values('date', ascending=False)
RECURSIVE SortByDateDesc(_)
SortByDateDesc(table) ==
    IF table = <<>> THEN <<>>
    ELSE LET k == Newest(table)
         IN  <<table[k]>> \o SortByDateDesc(RemoveAt(table, k))

\* table[table['customer_id'] == cust_id] without the filter
RowsOfAnyCustomer(table, cust_id) == table

\* table[table['customer_id'] == cust_id]
RowsOf(table, cust_id) ==
    SelectSeq(table, LAMBDA row : row.customer_id = cust_id)

IsNegativeSentiment(sentiment) ==
    sentiment \in {"frustrated", "negative", "urgent"}

\* negative_sentiment_pct, kept exact as the fraction num/den (0/1 when the
\* customer has no interaction)
NegativeSentimentPct(recent_interactions) ==
    IF Len(recent_interactions) > 0
    THEN [num |-> 100 * Len(SelectSeq(recent_interactions,
                                      LAMBDA row : IsNegativeSentiment(row.sentiment))),
          den |-> Len(recent_interactions)]
    ELSE [num |-> 0, den |-> 1]

\* pct > limit
PctAbove(pct, limit) == pct.num > limit * pct.den

\* any(table[column] == True)
AnyCall(table, Flag(_)) == \E k \in DOMAIN table : Flag(table[k])

\* ---- risk assessment: each `if` appends zero or one risk factor ----------
HealthFactor(customer) ==
    IF customer.health_score < CriticalHealth
    THEN <<[flag |-> "red", text |-> "Critical health score (<50)"]>>
    ELSE IF customer.health_score < AtRiskHealth
         THEN <<[flag |-> "yellow", text |-> "At-risk health score (<70)"]>>
         ELSE <<>>

EhrFactor(customer) ==
    IF ~customer.ehr_integrated
    THEN <<[flag |-> "red", text |-> "EHR not integrated - major friction point"]>>
    ELSE <<>>

ChampionFactorInverted(customer) ==
    IF customer.champion_exists
    THEN <<[flag |-> "yellow", text |-> "No active champion identified"]>>
    ELSE <<>>

ChampionFactor(customer) ==
    IF ~customer.champion_exists
    THEN <<[flag |-> "yellow", text |-> "No active champion identified"]>>
    ELSE <<>>

SentimentFactor(negative_sentiment_pct) ==
    IF PctAbove(negative_sentiment_pct, NegativeSentimentLimit)
    THEN <<[flag |-> "red", text |-> "High negative sentiment in support interactions"]>>
    ELSE <<>>

EscalationFactor(escalated_tickets) ==
    IF escalated_tickets > EscalationLimit
    THEN <<[flag |-> "yellow", text |-> <<escalated_tickets, "escalated tickets">>]>>
    ELSE <<>>

PaymentFactor(customer) ==
    IF customer.payment_status = "past_due"
    THEN <<[flag |-> "red", text |-> "Payment past due"]>>
    ELSE <<>>

ChurnFactor(churn_risk_mentioned) ==
    IF churn_risk_mentioned
    THEN <<[flag |-> "red", text |-> "Churn risk explicitly mentioned in calls"]>>
    ELSE <<>>

CompetitionFactor(customer) ==
    IF customer.competing_systems # "None"
    THEN <<[flag |-> "yellow",
            text |-> <<"Competitive threat:", customer.competing_systems>>]>>
    ELSE <<>>

RiskFactors(customer, negative_sentiment_pct, escalated_tickets, churn_risk_mentioned) ==
    HealthFactor(customer) \o EhrFactor(customer) \o ChampionFactor(customer)
    \o SentimentFactor(negative_sentiment_pct) \o EscalationFactor(escalated_tickets)
    \o PaymentFactor(customer) \o ChurnFactor(churn_risk_mentioned)
    \o CompetitionFactor(customer)

\* len([r for r in risk_factors if red in r])
RedCount(risk_factors) ==
    Len(SelectSeq(risk_factors, LAMBDA r : r.flag = "red"))

RiskLevelTotalFirst(risk_factors) ==
    IF Len(risk_factors) > RiskLevelLimit THEN "medium"
    ELSE IF RedCount(risk_factors) > RiskLevelLimit THEN "high"
         ELSE "low"

RiskLevelOneMoreRed(risk_factors) ==
    IF RedCount(risk_factors) > RiskLevelLimit + 1 THEN "high"
    ELSE IF Len(risk_factors) > RiskLevelLimit THEN "medium"
         ELSE "low"

\* 'risk_level' of the metadata
RiskLevel(risk_factors) ==
    IF RedCount(risk_factors) > RiskLevelLimit THEN "high"
    ELSE IF Len(risk_factors) > RiskLevelLimit THEN "medium"
         ELSE "low"

\* Health label of the ACCOUNT HEALTH section
HealthLabel(health_score) ==
    IF health_score > 70 THEN "Healthy"
    ELSE IF health_score > 50 THEN "At Risk" ELSE "Critical"

\* ---- create_comprehensive_customer_profile: one customer -----------------
Opportunities(customer, expansion_mentioned, cust_requests) ==
    (IF customer.health_score > 75 /\ expansion_mentioned
        THEN <<"Strong expansion candidate">> ELSE <<>>)
    \o (IF customer.ehr_integrated /\ customer.health_score > 70
        THEN <<"Good integration success story">> ELSE <<>>)
    \o (IF Len(cust_requests) > 3
        THEN <<"Highly engaged">> ELSE <<>>)
    \o (IF customer.num_locations > 3 /\ customer.segment # "Enterprise"
        THEN <<"Multi-location practice">> ELSE <<>>)

RecommendedActions(customer, risk_factors, expansion_mentioned) ==
    (IF Len(risk_factors) > 2 THEN <<"IMMEDIATE">> ELSE <<>>)
    \o (IF ~customer.ehr_integrated THEN <<"SHORT-TERM">> ELSE <<>>)
    \o (IF expansion_mentioned /\ customer.health_score > 70
        THEN <<"EXPANSION PURSUIT">> ELSE <<>>)

ProfileMetadataStamped(customer, risk_factors, expansion_mentioned, churn_risk_mentioned, now) ==
    [segment                   |-> customer.segment,
     health_score              |-> customer.health_score,
     mrr                       |-> customer.mrr,
     tenure                    |-> customer.tenure_months,
     risk_level                |-> RiskLevel(risk_factors),
     has_expansion_opportunity |-> expansion_mentioned,
     has_churn_risk            |-> churn_risk_mentioned \/ Len(risk_factors) > 3,
     generated                 |-> now]

\* 'metadata' of a profile document
ProfileMetadata(customer, risk_factors, expansion_mentioned, churn_risk_mentioned, now) ==
    [segment                   |-> customer.segment,
     health_score              |-> customer.health_score,
     mrr                       |-> customer.mrr,
     tenure                    |-> customer.tenure_months,
     risk_level                |-> RiskLevel(risk_factors),
     has_expansion_opportunity |-> expansion_mentioned,
     has_churn_risk            |-> churn_risk_mentioned \/ Len(risk_factors) > 3]

\* The document of one customer row; `now` is datetime.now() of the
\* 'Document Generated' line.
CustomerProfile(customer, interactions_df, calls_df, requests_df, now) ==
    LET cust_id == customer.customer_id
        cust_interactions == SortByDateDesc(RowsOf(interactions_df, cust_id))
        cust_calls == SortByDateDesc(RowsOf(calls_df, cust_id))
        cust_requests == SortByDateDesc(RowsOf(requests_df, cust_id))
        recent_interactions == Take(cust_interactions, RecentInteractions)
        negative_sentiment_pct == NegativeSentimentPct(recent_interactions)
        escalated_tickets ==
            Len(SelectSeq(cust_interactions, LAMBDA row : row.escalated))
        recent_calls == Take(cust_calls, RecentCalls)
        expansion_mentioned ==
            AnyCall(cust_calls, LAMBDA row : row.expansion_opportunity)
        churn_risk_mentioned ==
            AnyCall(cust_calls, LAMBDA row : row.churn_risk_mentioned)
        risk_factors == RiskFactors(customer, negative_sentiment_pct,
                                    escalated_tickets, churn_risk_mentioned)
    IN  [customer_id |-> cust_id,
         doc_type    |-> "comprehensive_profile",
         content     |->
            [profile_of     |-> cust_id,
             health_label   |-> HealthLabel(customer.health_score),
             total_tickets  |-> Len(recent_interactions),
             negative_pct   |-> negative_sentiment_pct,
             concern        |-> PctAbove(negative_sentiment_pct, 30),
             conversations  |-> [k \in DOMAIN recent_calls |-> recent_calls[k].date],
             requests       |-> [k \in DOMAIN Take(cust_requests, RecentRequests) |->
                                    Take(cust_requests, RecentRequests)[k].date],
             risk_factors   |-> risk_factors,
             overall_risk   |-> IF Len(risk_factors) > 0
                                THEN RiskLevel(risk_factors) ELSE "absent",
             opportunities  |-> Opportunities(customer, expansion_mentioned, cust_requests),
             actions        |-> RecommendedActions(customer, risk_factors,
                                                   expansion_mentioned),
             generated      |-> now],
         metadata    |-> ProfileMetadata(customer, risk_factors, expansion_mentioned,
                                         churn_risk_mentioned, now)]

\* create_comprehensive_customer_profile: one document per customer row
ComprehensiveCustomerProfiles(customers_t, interactions_df, calls_df, requests_df, now) ==
    [k \in DOMAIN customers_t |->
        CustomerProfile(customers_t[k], interactions_df, calls_df, requests_df, now)]

\* ---- create_thematic_insight_documents ------------------------------------
RECURSIVE SumMrr(_)
SumMrr(rows) ==
    IF rows = <<>> THEN 0 ELSE rows[1].mrr + SumMrr(Tail(rows))

\* calls.merge(customers, on='customer_id'): one row per call and matching customer
MergeMrr(rows, customers_t) ==
    LET Matches(row) == SelectSeq(customers_t,
                                  LAMBDA c : c.customer_id = row.customer_id)
        RECURSIVE Join(_)
        Join(rs) == IF rs = <<>> THEN <<>>
                    ELSE Matches(rs[1]) \o Join(Tail(rs))
    IN  Join(rows)

ThematicInsightDocuments(customers_t, interactions_df, calls_df) ==
    LET ehr_issues == SortByDateDesc(
            SelectSeq(interactions_df, LAMBDA row : row.topic = "ehr_integration"))
        expansion_calls == SelectSeq(calls_df, LAMBDA row : row.expansion_opportunity)
        expansion_customers == MergeMrr(expansion_calls, customers_t)
    IN  (IF Len(ehr_issues) > 0
         THEN <<[doc_type |-> "thematic_insight",
                 theme    |-> "ehr_integration",
                 content  |-> [total         |-> Len(ehr_issues),
                               high_priority |-> Len(SelectSeq(ehr_issues,
                                                    LAMBDA row : row.priority = "high")),
                               recent        |-> [k \in DOMAIN Take(ehr_issues, 5) |->
                                                    Take(ehr_issues, 5)[k].date]],
                 metadata |-> [customers_affected |-> Cardinality(CustomerIds(ehr_issues)),
                               total_incidents    |-> Len(ehr_issues),
                               priority           |-> "critical"]]>>
         ELSE <<>>)
        \o
        (IF Len(expansion_calls) > 0
         THEN <<[doc_type |-> "thematic_insight",
                 theme    |-> "expansion_opportunities",
                 content  |-> [total  |-> Len(expansion_calls),
                               unique |-> Cardinality(CustomerIds(expansion_calls))],
                 metadata |-> [customers_affected |-> Cardinality(CustomerIds(expansion_calls)),
                               potential_arr      |-> SumMrr(expansion_customers) \div 2,
                               priority           |-> "high"]]>>
         ELSE <<>>)

\* ---- save_all_documents ----------------------------------------------------
WrittenFileAppended(old_file, all_docs) == old_file \o all_docs

\* open(output_path, 'w') and one line per document
WrittenFile(old_file, all_docs) == all_docs

\* datetime.now() of a run: the first run, or a later time for a later run
NowDraws(runs) == IF runs = "none" THEN {1} ELSE {2}

SaveAllDocuments ==
    /\ rag_runs \in {"none", "once", "again"}
    /\ \E now \in NowDraws(rag_runs) :
         LET profile_docs == ComprehensiveCustomerProfiles(
                                 rag_customers, rag_interactions, rag_calls,
                                 rag_requests, now)
             thematic_docs == ThematicInsightDocuments(
                                 rag_customers, rag_interactions, rag_calls)
         IN  documents' = WrittenFile(documents, profile_docs \o thematic_docs)
    /\ rag_runs' = IF rag_runs = "none" THEN "once" ELSE "again"
    /\ UNCHANGED <<rag_customers, rag_interactions, rag_calls, rag_requests>>
    /\ UNCHANGED <<genVars, appVars, narVars, seedVars, sideVars>>

\* ---- input tables of the builder -------------------------------------------
\* Health scores of the profiled customer: one per health band.
RagHealthDraws == {35, 60, 90}

\* Values of payment_status and competing_systems the generator writes
\* (for each, the value that raises no risk factor and one that does).
PaymentStatusDraws == {"current", "past_due"}
CompetingSystemsDraws == {"None", "Evaluating alternatives"}

RagCustomer(i, health_score, ehr_integrated, champion_exists, payment, competing) ==
    [customer_id       |-> CustomerId(i),
     segment           |-> "Mid-Market",
     mrr               |-> 5000,
     tenure_months     |-> 12,
     num_locations     |-> 1,
     health_score      |-> health_score,
     ehr_integrated    |-> ehr_integrated,
     champion_exists   |-> champion_exists,
     payment_status    |-> payment,
     competing_systems |-> competing]

\* Customer tables: the first customer varies, the second is a fixed one of
\* the middle health band.
RagCustomerTables ==
    {<<RagCustomer(0, h, e, c, p, s), RagCustomer(1, 60, TRUE, TRUE, "current", "None")>> :
        h \in RagHealthDraws, e \in BOOLEAN, c \in BOOLEAN,
        p \in PaymentStatusDraws, s \in CompetingSystemsDraws}

\* Kinds of ticket the generator writes: sentiment, escalation, topic and the
\* priority the generator derives from them.
TicketKinds ==
    {[sentiment |-> "frustrated", escalated |-> TRUE,  topic |-> "ehr_integration",
      priority |-> "high"],
     [sentiment |-> "frustrated", escalated |-> FALSE, topic |-> "billing_workflow",
      priority |-> "high"],
     [sentiment |-> "positive",   escalated |-> TRUE,  topic |-> "ehr_integration",
      priority |-> "high"],
     [sentiment |-> "positive",   escalated |-> FALSE, topic |-> "patient_portal",
      priority |-> "low"]}

\* Tickets of the second customer: one frustrated escalated ticket.
OtherTickets ==
    {<<[sentiment |-> "frustrated", escalated |-> TRUE,
        topic |-> "hipaa_compliance", priority |-> "high"]>>}

\* Dates of the rows of a table by position: distinct and not in order.
DateOf(k) == (3 * k) % 7

\* Interaction tables: up to MaxTickets tickets of the first customer followed
\* by the tickets of the second.
RagInteractionTables ==
    {[k \in 1..(Len(own) + Len(other)) |->
        LET kind == IF k <= Len(own) THEN own[k] ELSE other[k - Len(own)] IN
        [customer_id |-> IF k <= Len(own) THEN CustomerId(0) ELSE CustomerId(1),
         date        |-> DateOf(k),
         sentiment   |-> kind.sentiment,
         escalated   |-> kind.escalated,
         topic       |-> kind.topic,
         priority    |-> kind.priority]] :
     own \in SeqsUpTo(TicketKinds, MaxTickets), other \in OtherTickets}

CallRow(i, churn, expansion) ==
    [customer_id |-> CustomerId(i), date |-> 1,
     churn_risk_mentioned |-> churn, expansion_opportunity |-> expansion]

\* Call tables: no call, or one call.
RagCallTables ==
    {<<>>, <<CallRow(0, FALSE, FALSE)>>, <<CallRow(0, TRUE, FALSE)>>,
     <<CallRow(0, FALSE, TRUE)>>, <<CallRow(1, FALSE, TRUE)>>}

\* The feature-request table: one request of each customer.
RagRequestTable ==
    <<[customer_id |-> CustomerId(0), date |-> 2],
      [customer_id |-> CustomerId(1), date |-> 1]>>

\* __init__ of CompleteHealthcareRAGGenerator on the four tables read from csv
InitRag ==
    /\ rag_customers \in RagCustomerTables
    /\ rag_interactions \in RagInteractionTables
    /\ rag_calls \in RagCallTables
    /\ rag_requests = RagRequestTable
    /\ documents = <<>>
    /\ rag_runs = "none"
    /\ GenIdle /\ AppIdle /\ NarIdle /\ SeedIdle /\ SideIdle

NextRag == SaveAllDocuments

SpecRag == InitRag /\ [][NextRag]_vars

\* ---- claims on the builder ---------------------------------------------------
ProfileDocs == SelectSeq(documents, LAMBDA d : d.doc_type = "comprehensive_profile")

\* The customer row a profile document was built from.
RowOfProfile(d) ==
    CHOOSE c \in Range(rag_customers) : c.customer_id = d.customer_id

\* Stated from the input tables: the tickets of a customer, how many of them
\* are negative, how many escalated, and whether a call mentions churn risk.
TicketsOf(cust_id) ==
    {k \in DOMAIN rag_interactions : rag_interactions[k].customer_id = cust_id}

NegativeTicketsOf(cust_id) ==
    {k \in TicketsOf(cust_id) :
        rag_interactions[k].sentiment \in {"frustrated", "negative", "urgent"}}

EscalatedTicketsOf(cust_id) ==
    {k \in TicketsOf(cust_id) : rag_interactions[k].escalated}

ChurnMentioned(cust_id) ==
    \E k \in DOMAIN rag_calls :
       rag_calls[k].customer_id = cust_id /\ rag_calls[k].churn_risk_mentioned

\* More than 40% of the (at most 10) tickets are negative.
MostlyNegative(cust_id) ==
    /\ Cardinality(TicketsOf(cust_id)) <= 10
    /\ 100 * Cardinality(NegativeTicketsOf(cust_id)) > 40 * Cardinality(TicketsOf(cust_id))

\* C1: a customer with health score 35, no EHR integration, no champion and
\* more than 40% negative sentiment among its recent interactions gets
\* risk_level 'high', whatever its other fields and rows are.
C1_HighRisk ==
    \A k \in DOMAIN ProfileDocs :
       LET d == ProfileDocs[k]
           c == RowOfProfile(d)
       IN  (/\ c.health_score = 35
            /\ ~c.ehr_integrated
            /\ ~c.champion_exists
            /\ MostlyNegative(c.customer_id))
           => d.metadata.risk_level = "high"

\* C1 witness: such a customer has been profiled, with exactly the three red
\* factors of the claim (payment current, no churn mention) and with tickets
\* that are not all negative.
C1_Witness ==
    \E k \in DOMAIN ProfileDocs :
       LET d == ProfileDocs[k]
           c == RowOfProfile(d)
       IN  /\ c.health_score = 35 /\ ~c.ehr_integrated /\ ~c.champion_exists
           /\ MostlyNegative(c.customer_id)
           /\ NegativeTicketsOf(c.customer_id) # TicketsOf(c.customer_id)
           /\ c.payment_status = "current"
           /\ ~ChurnMentioned(c.customer_id)
           /\ d.metadata.risk_level = "high"

WithoutTimestamp(d) ==
    IF d.doc_type = "comprehensive_profile"
    THEN [d EXCEPT !.content = [f \in (DOMAIN d.content) \ {"generated"} |-> d.content[f]]]
    ELSE d

MaxMessages == 4

\* Thresholds of the portfolio summary and of the Quick Insights tab
AtRiskBelow == 50
CriticalBelow == 40
ExpansionAbove == 70
ExpansionTenureAbove == 6

Portfolio == <<"portfolio">>

OrganizationNames == <<"Regional Health Center", "Community Care Group">>

AppCustomer(i, health_score, tenure_months, mrr) ==
    [customer_id       |-> CustomerId(i),
     organization_name |-> OrganizationNames[i + 1],
     health_score      |-> health_score,
     tenure_months     |-> tenure_months,
     mrr               |-> mrr]

\* Customer tables of healthcare_customers.csv: one with a critical and an
\* expansion-ready customer, one with neither.
AppTables ==
    {<<AppCustomer(0, 35, 12, 5000), AppCustomer(1, 90, 12, 15000)>>,
     <<AppCustomer(0, 60, 3, 500),   AppCustomer(1, 45, 24, 7999)>>}

\* Customer tables around the thresholds of the portfolio summary.
PortfolioTables ==
    {<<AppCustomer(0, h0, t0, 5000), AppCustomer(1, h1, t1, 15000)>> :
        h0 \in {39, 40, 49, 50, 70, 71}, h1 \in {39, 40, 49, 50, 70, 71},
        t0 \in {6, 7}, t1 \in {6, 7}}

\* What the user types and what generate_content does: it raises, or it
\* returns a response with this text.
Prompts == {"question", "another question"}
Replies == {"raises", "answer"}

\* ---- cached initialisation ---------------------------------------------------
\* load_data: the three tables, or (None, None, None) on FileNotFoundError
LoadData(files) ==
    IF files.present THEN [loaded |-> TRUE, rows |-> files.rows] ELSE NoData

\* init_gemini: None without an API key or when the set-up raises
InitGemini(env) == IF env = "ok" THEN "model" ELSE "None"

\* st.error calls inside the cached functions, replayed by each script run
CachedErrors(files, env) ==
    (IF ~files.present THEN <<"Error loading data">> ELSE <<>>)
    \o (IF env = "init_raises" THEN <<"Error initializing Gemini">> ELSE <<>>)

\* `customers_df is not None` without the check
DataLoadedAlways(df) == TRUE

\* `if customers_df is not None`
DataLoaded(df) == df.loaded

\* Reading rows of customers_df when it is None raises TypeError
Crash(df) == DataLoaded(df) /\ ~df.loaded

\* ---- sidebar -------------------------------------------------------------------
SidebarErrors(model) ==
    IF model = "None" THEN <<"AI Not Connected">> ELSE <<>>

\* customers_df.sort_values('health_score'): the first option of the selectbox
DefaultCustomer(rows) ==
    IF rows = <<>> THEN NoContext ELSE
    LET k == CHOOSE k \in DOMAIN rows :
                /\ \A j \in DOMAIN rows : rows[k].health_score <= rows[j].health_score
                /\ \A j \in 1..(k - 1) : rows[j].health_score > rows[k].health_score
    IN  rows[k].customer_id

SidebarContextIgnoresData(scope, selected, df) ==
    IF scope = "Specific Customer" THEN selected ELSE Portfolio

\* st.session_state.current_context as the sidebar sets it on every run
SidebarContext(scope, selected, df) ==
    IF scope = "Specific Customer" /\ DataLoaded(df) THEN selected ELSE Portfolio

\* Sections a script run draws
Sections(df) ==
    IF Crash(df) THEN {"sidebar"}
    ELSE {"sidebar", "chat"}
         \cup (IF DataLoaded(df) THEN {"sidebar_stats", "dashboard", "insights"} ELSE {})

\* ---- context blocks ------------------------------------------------------------
AtRisk(rows) == {k \in DOMAIN rows : rows[k].health_score < AtRiskBelow}

Critical(rows) == {k \in DOMAIN rows : rows[k].health_score < CriticalBelow}

ExpansionReadyLowBar(rows) ==
    {k \in DOMAIN rows : rows[k].health_score > CriticalBelow
                         /\ rows[k].tenure_months > ExpansionTenureAbove}

ExpansionReady(rows) ==
    {k \in DOMAIN rows : rows[k].health_score > ExpansionAbove
                         /\ rows[k].tenure_months > ExpansionTenureAbove}

\* get_portfolio_context
PortfolioContext(rows) ==
    [kind            |-> "portfolio",
     total           |-> Len(rows),
     total_mrr       |-> SumMrr(rows),
     at_risk         |-> Cardinality(AtRisk(rows)),
     critical        |-> Cardinality(Critical(rows)),
     expansion_ready |-> Cardinality(ExpansionReady(rows))]

\* get_customer_context: .iloc[0] raises IndexError when no row matches
HasCustomer(customer_id, rows) ==
    \E k \in DOMAIN rows : rows[k].customer_id = customer_id

CustomerContext(customer_id, rows) ==
    LET customer == rows[CHOOSE k \in DOMAIN rows : rows[k].customer_id = customer_id]
    IN  [kind         |-> "customer",
         customer_id  |-> customer_id,
         organization |-> customer.organization_name,
         health_score |-> customer.health_score,
         mrr          |-> customer.mrr]

ContextBlockOfPortfolio(context, rows) == PortfolioContext(rows)

\* The context block of the chat handler for the current scope
ContextBlock(context, rows) ==
    IF context = Portfolio THEN PortfolioContext(rows)
    ELSE CustomerContext(context, rows)

\* ---- chat handler --------------------------------------------------------------
UserMessage(content) == [role |-> "user", content |-> content]
AssistantMessage(content) == [role |-> "assistant", content |-> content]

ChatBranchNoModelCheck(model, df) ==
    IF ~DataLoaded(df) THEN "no_data" ELSE "call"

\* The if / elif / else of the chat input handler
ChatBranch(model, df) ==
    IF model = "None" THEN "not_configured"
    ELSE IF ~DataLoaded(df) THEN "no_data"
         ELSE "call"

ChatTranscriptAssistantFirst(transcript, prompt, reply) ==
    IF reply = "raises" THEN Append(transcript, UserMessage(prompt))
    ELSE Append(Append(transcript, AssistantMessage(reply)), UserMessage(prompt))

ChatTranscriptResetOnError(transcript, prompt, reply) ==
    IF reply = "raises" THEN <<>>
    ELSE Append(Append(transcript, UserMessage(prompt)), AssistantMessage(reply))

\* st.session_state.messages after the try block of a submission
ChatTranscript(transcript, prompt, reply) ==
    IF reply = "raises" THEN Append(transcript, UserMessage(prompt))
    ELSE Append(Append(transcript, UserMessage(prompt)), AssistantMessage(reply))

ModelCallsRetried(called, result) ==
    IF ~called THEN 0 ELSE IF result = "raises" THEN 2 ELSE 1

\* generate_content calls of one submission: the single call of the try
\* block, outside any loop
ModelCalls(called, result) == IF called THEN 1 ELSE 0

\* ---- script runs ---------------------------------------------------------------
\* What every script run shows besides the handler of its event
Shown(df, model, handler_errors) ==
    /\ errors' = CachedErrors(csv_files, gemini_env) \o SidebarErrors(model)
                 \o handler_errors
    /\ rendered' = Sections(df)
    /\ crashed' = Crash(df)

Started == event \notin {"idle", "init"}

\* First script run: session state, init_gemini, load_data, sidebar, tabs
Startup ==
    /\ event = "init"
    /\ customers_df' = LoadData(csv_files)
    /\ gemini_model' = InitGemini(gemini_env)
    /\ current_context' = SidebarContext(analysis_scope, selected_customer, customers_df')
    /\ Shown(customers_df', gemini_model', <<>>)
    /\ event' = "startup"
    /\ outcome' = "none"
    /\ model_calls' = 0
    /\ UNCHANGED <<csv_files, gemini_env, messages, analysis_scope,
                   selected_customer, last_prompt>>
    /\ UNCHANGED <<genVars, ragVars, narVars, seedVars, sideVars>>

\* The user picks the other option of the "Analysis Scope" radio
SelectScope ==
    /\ Started
    /\ \E scope \in {"Portfolio Overview", "Specific Customer"} :
          /\ scope # analysis_scope
          /\ analysis_scope' = scope
          /\ selected_customer' =
                IF scope = "Specific Customer" /\ DataLoaded(customers_df)
                THEN DefaultCustomer(customers_df.rows)
                ELSE NoContext
    /\ current_context' = SidebarContext(analysis_scope', selected_customer', customers_df)
    /\ Shown(customers_df, gemini_model, <<>>)
    /\ event' = "scope"
    /\ outcome' = "none"
    /\ model_calls' = 0
    /\ UNCHANGED <<csv_files, gemini_env, gemini_model, customers_df, messages,
                   last_prompt>>
    /\ UNCHANGED <<genVars, ragVars, narVars, seedVars, sideVars>>

\* The user picks another customer in the selectbox
SelectCustomer ==
    /\ Started
    /\ analysis_scope = "Specific Customer"
    /\ DataLoaded(customers_df)
    /\ \E k \in DOMAIN customers_df.rows :
          /\ customers_df.rows[k].customer_id # selected_customer
          /\ selected_customer' = customers_df.rows[k].customer_id
    /\ current_context' = SidebarContext(analysis_scope, selected_customer', customers_df)
    /\ Shown(customers_df, gemini_model, <<>>)
    /\ event' = "customer"
    /\ outcome' = "none"
    /\ model_calls' = 0
    /\ UNCHANGED <<csv_files, gemini_env, gemini_model, customers_df, messages,
                   analysis_scope, last_prompt>>
    /\ UNCHANGED <<genVars, ragVars, narVars, seedVars, sideVars>>

\* The user submits a question in the chat input
ChatSubmit ==
    /\ Started
    /\ Len(messages) + 2 <= MaxMessages
    /\ \E prompt \in Prompts, reply \in Replies :
          LET context == SidebarContext(analysis_scope, selected_customer, customers_df)
              branch  == ChatBranch(gemini_model, customers_df)
              \* building the context block raises inside the try when the
              \* data or the customer is missing
              built   == /\ customers_df.loaded
                         /\ context = Portfolio \/ HasCustomer(context, customers_df.rows)
              \* None.generate_content raises AttributeError inside the try
              called  == built /\ gemini_model # "None"
              result  == IF called THEN reply ELSE "raises"
          IN  /\ current_context' = context
              /\ IF branch = "not_configured"
                 THEN /\ Shown(customers_df, gemini_model, <<"AI not configured.">>)
                      /\ outcome' = "not_configured"
                      /\ model_calls' = 0
                      /\ UNCHANGED <<messages, last_prompt>>
                 ELSE IF branch = "no_data"
                 THEN /\ Shown(customers_df, gemini_model, <<"Data not loaded.">>)
                      /\ outcome' = "no_data"
                      /\ model_calls' = 0
                      /\ UNCHANGED <<messages, last_prompt>>
                 ELSE /\ messages' = ChatTranscript(messages, prompt, result)
                      /\ model_calls' = ModelCalls(called, result)
                      /\ last_prompt' =
                            IF called
                            THEN [context  |-> ContextBlock(context, customers_df.rows),
                                  question |-> prompt]
                            ELSE last_prompt
                      /\ outcome' = IF result = "raises" THEN "model_error" ELSE "answered"
                      /\ Shown(customers_df, gemini_model,
                               IF result = "raises" THEN <<"Error">> ELSE <<>>)
    /\ event' = "chat"
    /\ UNCHANGED <<csv_files, gemini_env, gemini_model, customers_df,
                   analysis_scope, selected_customer>>
    /\ UNCHANGED <<genVars, ragVars, narVars, seedVars, sideVars>>

ClearChatAndScope ==
    /\ Started
    /\ messages # <<>>
    /\ messages' = <<>>
    /\ analysis_scope' = "Portfolio Overview"
    /\ selected_customer' = NoContext
    /\ current_context' = Portfolio
    /\ Shown(customers_df, gemini_model, <<>>)
    /\ event' = "clear"
    /\ outcome' = "none"
    /\ model_calls' = 0
    /\ UNCHANGED <<csv_files, gemini_env, gemini_model, customers_df, last_prompt>>
    /\ UNCHANGED <<genVars, ragVars, narVars, seedVars, sideVars>>

\* "Clear Chat History": empties the transcript and reruns the script
ClearChat ==
    /\ Started
    /\ messages # <<>>
    /\ messages' = <<>>
    /\ current_context' = SidebarContext(analysis_scope, selected_customer, customers_df)
    /\ Shown(customers_df, gemini_model, <<>>)
    /\ event' = "clear"
    /\ outcome' = "none"
    /\ model_calls' = 0
    /\ UNCHANGED <<csv_files, gemini_env, gemini_model, customers_df,
                   analysis_scope, selected_customer, last_prompt>>
    /\ UNCHANGED <<genVars, ragVars, narVars, seedVars, sideVars>>

\* Rows of the two Quick Insights lists; nsmallest(5, ...) and nlargest(5, ...)
\* keep every row of the tables used here
CriticalShown(rows) == Critical(rows)

ExpansionShown(rows) == ExpansionReady(rows)

\* A Quick Insights button sets the context and queues a question; st.rerun
\* runs the script again, where the sidebar assigns current_context
QuickInsight(shown, about, name) ==
    /\ Started
    /\ DataLoaded(customers_df)
    /\ Len(messages) + 1 <= MaxMessages
    /\ \E k \in shown :
          messages' = Append(messages,
                             UserMessage([about |-> about,
                                          org   |-> customers_df.rows[k].organization_name]))
    /\ current_context' = SidebarContext(analysis_scope, selected_customer, customers_df)
    /\ Shown(customers_df, gemini_model, <<>>)
    /\ event' = name
    /\ outcome' = "none"
    /\ model_calls' = 0
    /\ UNCHANGED <<csv_files, gemini_env, gemini_model, customers_df,
                   analysis_scope, selected_customer, last_prompt>>
    /\ UNCHANGED <<genVars, ragVars, narVars, seedVars, sideVars>>

\* "Ask AI" next to a critical customer
AskAI ==
    QuickInsight(IF customers_df.loaded THEN CriticalShown(customers_df.rows) ELSE {},
                 "churn risk analysis", "ask_ai")

\* "Strategy" next to an expansion-ready customer
ExpansionStrategy ==
    QuickInsight(IF customers_df.loaded THEN ExpansionShown(customers_df.rows) ELSE {},
                 "expansion strategy", "strategy")

AppFiles(tables) ==
    {[present |-> FALSE, rows |-> <<>>]}
    \cup {[present |-> TRUE, rows |-> t] : t \in tables}

InitAppWith(files, envs) ==
    /\ GenIdle
    /\ RagIdle
    /\ NarIdle
    /\ SeedIdle /\ SideIdle
    /\ csv_files \in files
    /\ gemini_env \in envs
    /\ gemini_model = "None"
    /\ customers_df = NoData
    /\ messages = <<>>
    /\ current_context = NoContext
    /\ analysis_scope = "Portfolio Overview"
    /\ selected_customer = NoContext
    /\ event = "init"
    /\ outcome = "none"
    /\ errors = <<>>
    /\ model_calls = 0
    /\ rendered = {}
    /\ crashed = FALSE
    /\ last_prompt = NoPrompt

InitApp == InitAppWith(AppFiles(AppTables), {"ok", "no_key", "init_raises"})

NextApp ==
    \/ Startup
    \/ SelectScope
    \/ SelectCustomer
    \/ ChatSubmit
    \/ ClearChat
    \/ AskAI
    \/ ExpansionStrategy

SpecApp == InitApp /\ [][NextApp]_vars

\* The portfolio summary over customer tables around its thresholds
InitPortfolio ==
    InitAppWith({[present |-> TRUE, rows |-> t] : t \in PortfolioTables}, {"ok"})

NextPortfolio ==
    \/ Startup
    \/ ChatSubmit
    \/ ClearChat

SpecPortfolio == InitPortfolio /\ [][NextPortfolio]_vars

\* ---- claims about the presentation layer ---------------------------------------
ShownErrors == Range(errors)

DataSections == {"sidebar_stats", "dashboard", "insights"}

IsPrefix(s, t) == Len(s) <= Len(t) /\ SubSeq(t, 1, Len(s)) = s

ModelCallFailed == event' = "chat" /\ outcome' = "model_error"

\* C3: when the model call raises during a chat submission, the messages that
\* were in the transcript before the submission are still there, unchanged
\* and in the same order, and exactly one error message is displayed.
C3_PriorTranscriptKept ==
    [][ModelCallFailed => (IsPrefix(messages, messages') /\ Len(errors') = 1)]_vars

C3_Witness ==
    /\ event = "chat"
    /\ outcome = "model_error"
    /\ Len(messages) = 3
    /\ messages[2].role = "assistant"
    /\ Len(errors) = 1

\* C4: a chat turn whose model call fails is dropped from history, i.e. the
\* stored transcript after the failure equals the transcript before the
\* submission.  The handler appends the user message before the try block
\* and the except branch does not remove it.
C4_FailedTurnDropped ==
    [][ModelCallFailed => messages' = messages]_vars

\* C7: for every customer table the critical customers are among the at-risk
\* ones, no customer is both at risk and expansion ready, and the at-risk and
\* expansion-ready counts of the portfolio summary add up to no more than
\* the total it shows.
C7_PortfolioCounts ==
    last_prompt.context.kind = "portfolio" =>
        LET rows    == customers_df.rows
            context == last_prompt.context
        IN  /\ Critical(rows) \subseteq AtRisk(rows)
            /\ AtRisk(rows) \cap ExpansionReady(rows) = {}
            /\ context.critical <= context.at_risk
            /\ context.at_risk + context.expansion_ready <= context.total

C7_Witness ==
    /\ last_prompt.context.kind = "portfolio"
    /\ last_prompt.context.critical = 1
    /\ last_prompt.context.at_risk = 1
    /\ last_prompt.context.expansion_ready = 1
    /\ last_prompt.context.total = 2

\* C9: with no model (init_gemini returned None) a chat submission makes no
\* model call, leaves the transcript unchanged and shows an error, and the
\* sidebar, the dashboard and the quick insights are still drawn from the
\* loaded data.
C9_ChatDisabledWithoutModel ==
    [][(event' = "chat" /\ gemini_model = "None") =>
          /\ model_calls' = 0
          /\ messages' = messages
          /\ "AI not configured." \in Range(errors')
          /\ customers_df.loaded => ({"sidebar"} \cup DataSections) \subseteq rendered']_vars

C9_Witness ==
    /\ event = "chat"
    /\ gemini_env = "no_key"
    /\ outcome = "not_configured"
    /\ customers_df.loaded
    /\ messages # <<>>
    /\ DataSections \subseteq rendered

\* C10: with an input table file missing, load_data reports a load error
\* and yields no data, and every later script run completes without raising:
\* the scope is the portfolio, a chat submission makes no model call and
\* leaves the transcript unchanged, and no chart or insight is drawn.
C10_MissingFileDegrades ==
    [][~csv_files.present =>
          /\ event' = "startup" => "Error loading data" \in Range(errors')
          /\ customers_df' = NoData
          /\ ~crashed'
          /\ current_context' = Portfolio
          /\ model_calls' = 0
          /\ messages' = messages
          /\ rendered' \cap DataSections = {}
          /\ "sidebar" \in rendered']_vars

C10_Witness ==
    /\ ~csv_files.present
    /\ event = "chat"
    /\ outcome = "no_data"
    /\ analysis_scope = "Specific Customer"
    /\ gemini_model = "model"
    /\ "Error loading data" \in ShownErrors
    /\ current_context = Portfolio

\* C11: a chat submission causes at most one model call; a failed call is
\* not retried, and a script run that is not a chat submission (a rerun
\* included) makes no model call.
C11_AtMostOneCallPerSubmission ==
    /\ model_calls <= 1
    /\ model_calls = 1 => event = "chat" /\ outcome \in {"answered", "model_error"}

\* A run after a failed call: the table offers no quick-insight button, so
\* the single user entry is the question of the failed submission.
C11_Witness ==
    /\ gemini_model = "model"
    /\ customers_df.loaded
    /\ Critical(customers_df.rows) = {}
    /\ ExpansionReady(customers_df.rows) = {}
    /\ Len(messages) = 1
    /\ event = "scope"
    /\ model_calls = 0

\* The context block of the scope the sidebar shows
ScopeContextBlock(scope, selected, rows) ==
    IF scope = "Specific Customer" THEN CustomerContext(selected, rows)
    ELSE PortfolioContext(rows)

\* C12: the prompt of a chat submission is one context block and the
\* submitted question: the portfolio block in portfolio scope, else the block
\* of the selected customer, whatever the transcript holds.
C12_PromptIsContextAndQuestion ==
    [][(event' = "chat" /\ model_calls' = 1) =>
          /\ last_prompt'.context =
                ScopeContextBlock(analysis_scope, selected_customer, customers_df.rows)
          /\ last_prompt'.question = messages'[Len(messages) + 1].content
          /\ DOMAIN last_prompt' = {"context", "question"}]_vars

C12_Witness ==
    /\ event = "chat"
    /\ model_calls = 1
    /\ Len(messages) = 4
    /\ last_prompt.context.kind = "customer"
    /\ last_prompt.context.customer_id = selected_customer
    /\ last_prompt.question = "another question"

\* C13: a submission whose model call succeeds appends two entries to the
\* end of the transcript: the user entry with the question, then the
\* assistant entry with the returned text.
C13_SuccessAppendsUserThenAssistant ==
    [][(event' = "chat" /\ outcome' = "answered") =>
          /\ Len(messages') = Len(messages) + 2
          /\ IsPrefix(messages, messages')
          /\ messages'[Len(messages) + 1] = UserMessage(last_prompt'.question)
          /\ messages'[Len(messages) + 2].role = "assistant"
          /\ messages'[Len(messages) + 2].content \in Replies \ {"raises"}]_vars

C13_Witness ==
    /\ event = "chat"
    /\ outcome = "answered"
    /\ Len(messages) = 4
    /\ messages[3].role = "user"
    /\ messages[4] = AssistantMessage("answer")

\* C14: every action but Clear Chat keeps the existing entries as a prefix
\* of the transcript; Clear Chat empties it and leaves the scope as it was.
C14_AppendOnlyUntilCleared ==
    [][/\ event' # "clear" => IsPrefix(messages, messages')
       /\ event' = "clear" =>
             /\ messages' = <<>>
             /\ analysis_scope' = analysis_scope
             /\ selected_customer' = selected_customer
             /\ current_context' = current_context]_vars

C14_Witness ==
    /\ event = "clear"
    /\ messages = <<>>
    /\ analysis_scope = "Specific Customer"
    /\ current_context = selected_customer
    /\ current_context # Portfolio
    /\ last_prompt # NoPrompt

\* ---- further claims on the builder ---------------------------------------------
TierRank(level) ==
    CASE level = "low" -> 0 [] level = "medium" -> 1 [] level = "high" -> 2

\* A risk factor added to a list, of either flag
AddedFactors ==
    {[flag |-> "red", text |-> "added"], [flag |-> "yellow", text |-> "added"]}

RedFactorsOf(d) ==
    {j \in DOMAIN d.content.risk_factors : d.content.risk_factors[j].flag = "red"}

\* C15: the risk level of a profile is 'high' with more than 2 red factors,
\* otherwise 'medium' with more than 2 factors in all, otherwise 'low', and
\* a factor added to the list never lowers the level.
C15_ThreeTiers ==
    \A k \in DOMAIN ProfileDocs :
       LET d       == ProfileDocs[k]
           factors == d.content.risk_factors
       IN  /\ d.metadata.risk_level =
                 IF Cardinality(RedFactorsOf(d)) > 2 THEN "high"
                 ELSE IF Len(factors) > 2 THEN "medium" ELSE "low"
           /\ \A extra \in AddedFactors :
                 TierRank(RiskLevel(Append(factors, extra)))
                    >= TierRank(d.metadata.risk_level)

\* A profile of each tier boundary: medium with two red factors, one red
\* factor short of high.
C15_Witness ==
    \E k \in DOMAIN ProfileDocs :
       /\ ProfileDocs[k].metadata.risk_level = "medium"
       /\ Cardinality(RedFactorsOf(ProfileDocs[k])) = 2
       /\ Len(ProfileDocs[k].content.risk_factors) = 3
       /\ RiskLevel(Append(ProfileDocs[k].content.risk_factors,
                           [flag |-> "red", text |-> "added"])) = "high"

\* ---- input tables with more rows than the profile keeps ------------------------
\* Numbers of own interactions, calls and requests of the first customer:
\* none, as many as the profile keeps, and more.
OwnInteractionCounts == {0, 9, 10, 11, 12}
OwnCallCounts == {0, 3, 4}
OwnRequestCounts == {0, 5, 6}

\* Dates of the own rows by position: distinct, not in order; `shift` moves
\* which positions hold the oldest dates.
ShuffledDate(k, shift) == (5 * k + shift) % 13
DateShifts == {0, 1, 2, 3}

\* Every `period`-th own interaction has a negative-class sentiment.
SentimentPeriods == {1, 2, 3}

RecentTicket(i, date, sentiment) ==
    [customer_id |-> CustomerId(i), date |-> date, sentiment |-> sentiment,
     escalated |-> FALSE, topic |-> "billing_workflow", priority |-> "low"]

\* Rows of the second customer around the own rows: one newer than all of
\* them first, one older than all of them last.
Surround(own, newer, older) == <<newer>> \o own \o <<older>>

RecentInteractionTables ==
    {Surround([k \in 1..n |->
                  RecentTicket(0, ShuffledDate(k, shift),
                               IF k % period = 0 THEN "negative" ELSE "neutral")],
              RecentTicket(1, 20, "urgent"), RecentTicket(1, 13, "urgent")) :
        n \in OwnInteractionCounts, shift \in DateShifts, period \in SentimentPeriods}

RecentCallTables ==
    {Surround([k \in 1..n |-> [CallRow(0, FALSE, FALSE) EXCEPT !.date = ShuffledDate(k, 0)]],
              [CallRow(1, FALSE, FALSE) EXCEPT !.date = 20],
              [CallRow(1, FALSE, FALSE) EXCEPT !.date = 13]) :
        n \in OwnCallCounts}

RecentRequestTables ==
    {Surround([k \in 1..n |-> [customer_id |-> CustomerId(0), date |-> ShuffledDate(k, 0)]],
              [customer_id |-> CustomerId(1), date |-> 20],
              [customer_id |-> CustomerId(1), date |-> 13]) :
        n \in OwnRequestCounts}

InitRecent ==
    /\ rag_customers = <<RagCustomer(0, 60, TRUE, TRUE, "current", "None"),
                         RagCustomer(1, 60, TRUE, TRUE, "current", "None")>>
    /\ rag_interactions \in RecentInteractionTables
    /\ rag_calls \in RecentCallTables
    /\ rag_requests \in RecentRequestTables
    /\ documents = <<>>
    /\ rag_runs = "none"
    /\ GenIdle /\ AppIdle /\ NarIdle /\ SeedIdle /\ SideIdle

SpecRecent == InitRecent /\ [][NextRag]_vars

\* Stated from an input table: the positions of a customer's rows, and those
\* of them with fewer than n own rows of a later date.
OwnRows(table, cust_id) == {k \in DOMAIN table : table[k].customer_id = cust_id}

MostRecentOwn(table, cust_id, n) ==
    {k \in OwnRows(table, cust_id) :
        Cardinality({j \in OwnRows(table, cust_id) : table[j].date > table[k].date}) < n}

DatesAt(table, positions) == {table[k].date : k \in positions}

Descending(dates) ==
    \A j \in DOMAIN dates : \A k \in DOMAIN dates : j < k => dates[j] >= dates[k]

BandHealthDraws == {40, 50, 51, 70, 71, 99}

\* Customer tables of one customer, one per health score
BandCustomerTables ==
    {<<Customer(0, "Private Practice", 500, 47, h)>> : h \in BandHealthDraws}

InitBands ==
    /\ customers \in BandCustomerTables
    /\ interactions = <<>> /\ calls = <<>> /\ feature_requests = <<>>
    /\ gen_pc = [op |-> "interactions", i |-> 1]
    /\ RagIdle /\ AppIdle /\ NarIdle /\ SeedIdle /\ SideIdle

SpecBands == InitBands /\ [][NextGen]_vars

\* Health score of the customer a dependent row belongs to
HealthOf(row) ==
    LET k == CHOOSE k \in DOMAIN customers : customers[k].customer_id = row.customer_id
    IN  customers[k].health_score

\* C20: the sentiment of a generated interaction comes from the set of its
\* customer's health band: above 70 positive, neutral or satisfied; 51 to 70
\* neutral, concerned or frustrated; 50 or less frustrated, negative or
\* urgent.  So no customer above 70 has a frustrated, negative or urgent
\* interaction.
C20_SentimentByHealthBand ==
    \A k \in DOMAIN interactions :
       LET h == HealthOf(interactions[k])
           sentiment == interactions[k].sentiment
       IN  /\ h > 70 => sentiment \in {"positive", "neutral", "satisfied"}
           /\ (h >= 51 /\ h <= 70) => sentiment \in {"neutral", "concerned", "frustrated"}
           /\ h <= 50 => sentiment \in {"frustrated", "negative", "urgent"}
           /\ h > 70 => sentiment \notin {"frustrated", "negative", "urgent"}

\* An interaction of a customer at the top of the middle band and frustrated.
C20_Witness ==
    /\ gen_pc.op = "done"
    /\ \E k \in DOMAIN interactions :
          HealthOf(interactions[k]) = 70 /\ interactions[k].sentiment = "frustrated"

\* ========================================================================
\* 4. Narrative content generator (src/complete_data_generator.py)
\* ========================================================================

\* Base of the numeric part of 'EMAIL-<n>'
EmailIdBase == 1000

\* ---- generate_call_transcripts -------------------------------------------------
\* The branch of the if / elif / else on call['sentiment']
TranscriptTemplate(sentiment) ==
    IF sentiment \in {"frustrated", "concerned"} THEN "frustrated"
    ELSE IF sentiment \in {"positive", "enthusiastic"} THEN "positive"
         ELSE "neutral"

CallTranscript(call) ==
    [call_id     |-> call.call_id,
     customer_id |-> call.customer_id,
     transcript  |-> TranscriptTemplate(call.sentiment),
     competitor_mentioned |-> TranscriptTemplate(call.sentiment) = "frustrated"]

GenerateCallTranscripts ==
    /\ nar_pc = "loaded"
    /\ transcripts' = [k \in DOMAIN calls |-> CallTranscript(calls[k])]
    /\ nar_pc' = "transcripts"
    /\ UNCHANGED emails
    /\ UNCHANGED <<genVars, ragVars, appVars, seedVars, sideVars>>

\* ---- generate_email_threads ----------------------------------------------------
\* thread_content as the templates it is formatted from, in order: the
\* escalation template, followed by the follow-up template when the
\* interaction is not resolved, or else the positive template
ThreadContent(interaction) ==
    IF interaction.sentiment \in {"frustrated", "urgent"}
    THEN IF ~interaction.resolved THEN <<"escalation", "followup">>
                                  ELSE <<"escalation">>
    ELSE <<"positive">>

EmailThread(interaction, position) ==
    [email_id         |-> <<"EMAIL", position + EmailIdBase>>,
     customer_id      |-> interaction.customer_id,
     interaction_id   |-> interaction.interaction_id,
     thread_content   |-> ThreadContent(interaction),
     sentiment        |-> interaction.sentiment,
     escalation_level |-> IF interaction.priority = "high" THEN "high" ELSE "normal"]

GenerateEmailThreads ==
    /\ nar_pc = "transcripts"
    /\ LET by_email == SelectSeq(interactions, LAMBDA row : row.channel = "email")
       IN  emails' = [k \in DOMAIN by_email |-> EmailThread(by_email[k], k - 1)]
    /\ nar_pc' = "emails"
    /\ UNCHANGED transcripts
    /\ UNCHANGED <<genVars, ragVars, appVars, seedVars, sideVars>>

\* ---- input tables: the csv files of the entity generator ------------------------
\* Sentiments generate_interactions writes, and the priority it derives for a
\* topic outside the high-priority list
InteractionSentiments ==
    {"positive", "neutral", "satisfied", "concerned", "frustrated", "negative", "urgent"}

PriorityOf(sentiment) ==
    IF sentiment \in {"urgent", "frustrated"} THEN "high"
    ELSE IF sentiment = "negative" THEN "medium" ELSE "low"

\* A health score of the band that draws the sentiment
HealthFor(sentiment) ==
    IF sentiment \in {"positive", "satisfied"} THEN 90
    ELSE IF sentiment \in {"neutral", "concerned", "frustrated"} THEN 60 ELSE 40

NarTicket(position, i, channel, sentiment, resolved) ==
    [interaction_id |-> <<"TICKET", position + TicketIdBase>>,
     customer_id    |-> CustomerId(i),
     channel        |-> channel,
     sentiment      |-> sentiment,
     priority       |-> PriorityOf(sentiment),
     resolved       |-> resolved]

\* Sentiments generate_sales_calls writes
CallSentiments == {"positive", "neutral", "concerned", "enthusiastic"}

NarCall(position, i, sentiment) ==
    [call_id     |-> <<"CALL", position + CallIdBase>>,
     customer_id |-> CustomerId(i),
     sentiment   |-> sentiment,
     churn_risk_mentioned |-> FALSE]

\* Tables of two customers: a ticket of the first customer of any channel,
\* sentiment and resolution, then a chat ticket and an email of the second.
InitNarrative ==
    /\ \E channel \in {"email", "phone"}, sentiment \in InteractionSentiments,
          resolved \in BOOLEAN, second \in {"urgent", "satisfied"}, unresolved \in BOOLEAN :
          /\ customers = <<Customer(0, "Private Practice", 500, 47, HealthFor(sentiment)),
                           Customer(1, "Private Practice", 500, 47, HealthFor(second))>>
          /\ interactions = <<NarTicket(0, 0, channel, sentiment, resolved),
                              NarTicket(1, 1, "chat", second, TRUE),
                              NarTicket(2, 1, "email", second, ~unresolved)>>
    /\ \E first \in CallSentiments, second \in CallSentiments :
          calls = <<NarCall(0, 0, first), NarCall(1, 1, second)>>
    /\ feature_requests = <<>>
    /\ gen_pc = [op |-> "done", i |-> 1]
    /\ transcripts = <<>> /\ emails = <<>> /\ nar_pc = "loaded"
    /\ RagIdle /\ AppIdle /\ SeedIdle /\ SideIdle

NextNarrative == GenerateCallTranscripts \/ GenerateEmailThreads

SpecNarrative == InitNarrative /\ [][NextNarrative]_vars

\* ---- claims on the narrative generator ------------------------------------------
\* The interaction an email thread was generated for
InteractionOf(email) ==
    interactions[CHOOSE k \in DOMAIN interactions :
                    interactions[k].interaction_id = email.interaction_id]

CallOf(transcript) ==
    calls[CHOOSE k \in DOMAIN calls : calls[k].call_id = transcript.call_id]

HasFollowUp(email) == "followup" \in Range(email.thread_content)

\* C17: every email thread of an interaction that is not resolved contains
\* the follow-up email, and no thread of a resolved interaction does.  The
\* follow-up is added only inside the branch of frustrated and urgent
\* interactions.
C17_UnresolvedGetsFollowUp ==
    \A k \in DOMAIN emails :
       HasFollowUp(emails[k]) <=> ~InteractionOf(emails[k]).resolved

NegativeClass == {"frustrated", "negative", "urgent", "concerned"}
PositiveClass == {"positive", "satisfied", "enthusiastic"}

\* C18: a call transcript or an email thread of a row with a negative-class
\* sentiment is never produced from the positive template, and one of a row
\* with a positive-class sentiment never from the frustrated or escalation
\* template.  The email branch sends every sentiment but frustrated and
\* urgent to the positive template.
C18_TemplateMatchesSentiment ==
    /\ \A k \in DOMAIN transcripts :
          LET sentiment == CallOf(transcripts[k]).sentiment IN
          /\ sentiment \in NegativeClass => transcripts[k].transcript # "positive"
          /\ sentiment \in PositiveClass => transcripts[k].transcript # "frustrated"
    /\ \A k \in DOMAIN emails :
          LET sentiment == InteractionOf(emails[k]).sentiment IN
          /\ sentiment \in NegativeClass
                => "positive" \notin Range(emails[k].thread_content)
          /\ sentiment \in PositiveClass
                => "escalation" \notin Range(emails[k].thread_content)

\* ========================================================================
\* 5. Seeded runs of the entity generator (src/healthcare_data_gen.py)
\* ========================================================================
\* The two random sources are generators seeded at import.  Each is modelled
\* as a small linear congruential generator: a draw advances the state and
\* picks from the possible values by the new state.

\* Seeds tried for the two sources; 42 is the one in the source.
SeedDraws == {42, 7, 11}

PrngAdvance(state) == (5 * state + 3) % 16

\* The state after np.random.seed(seed) / random.seed(seed), whatever it was
SeededOnlyOnce(state, seed) == IF state = Unseeded THEN seed % 16 ELSE state

Seeded(state, seed) == seed % 16

\* A fixed enumeration of a finite set of possible values
Enumerate(S) ==
    CHOOSE f \in [0..(Cardinality(S) - 1) -> S] : \A x \in S : \E k \in DOMAIN f : f[k] = x

\* The value a draw returns in the given generator state
Pick(S, state) == Enumerate(S)[(state \div 2) % Cardinality(S)]

\* Module import and construction of the generator for a run
SeededStart ==
    /\ gen_pc.op = "import"
    /\ Len(written) < 2
    /\ np_random' = Seeded(np_random, seed_cfg.np)
    /\ py_random' = Seeded(py_random, seed_cfg.py)
    /\ customers' = <<>> /\ interactions' = <<>>
    /\ calls' = <<>> /\ feature_requests' = <<>>
    /\ gen_pc' = [op |-> "seeded_customers", i |-> 1]
    /\ UNCHANGED <<seed_cfg, written>>
    /\ UNCHANGED <<ragVars, appVars, narVars, sideVars>>

\* generate_customers, one iteration: org_type from random, the rest from numpy
SeededCustomer ==
    /\ gen_pc.op = "seeded_customers"
    /\ Len(customers) < seed_cfg.n
    /\ LET p1       == PrngAdvance(py_random)
           org_type == org_types[(p1 % Len(org_types)) + 1]
           n1       == PrngAdvance(np_random)
           n2       == PrngAdvance(n1)
           n3       == PrngAdvance(n2)
       IN  /\ customers' = Append(customers,
                                  Customer(Len(customers), org_type,
                                           Pick(MrrDraws(org_type), n1),
                                           Pick(TenureDraws, n2),
                                           Pick(HealthDraws, n3)))
           /\ py_random' = p1
           /\ np_random' = n3
    /\ UNCHANGED <<interactions, calls, feature_requests, gen_pc, seed_cfg, written>>
    /\ UNCHANGED <<ragVars, appVars, narVars, sideVars>>

\* generate_interactions, one customer: the count, then a sentiment per row
SeededInteractions ==
    /\ gen_pc.op = "seeded_interactions"
    /\ gen_pc.i <= Len(customers)
    /\ LET customer == customers[gen_pc.i]
           n1       == PrngAdvance(np_random)
           n        == Pick(PoissonDraws, n1)
           n2       == PrngAdvance(n1)
       IN  /\ interactions' = interactions \o
                 [j \in 1..n |->
                    [interaction_id |-> <<"TICKET", Len(interactions) + (j - 1) + TicketIdBase>>,
                     customer_id    |-> RowCustomerId(customer, gen_pc.i),
                     sentiment      |-> Pick(SentimentDraws(customer.health_score), n2)]]
           /\ np_random' = IF n = 0 THEN n1 ELSE n2
    /\ gen_pc' = [gen_pc EXCEPT !.i = @ + 1]
    /\ UNCHANGED <<customers, calls, feature_requests, py_random, seed_cfg, written>>
    /\ UNCHANGED <<ragVars, appVars, narVars, sideVars>>

\* generate_sales_calls, one customer: churn_risk_mentioned is drawn only for
\* a customer with health below 60
SeededSalesCalls ==
    /\ gen_pc.op = "seeded_calls"
    /\ gen_pc.i <= Len(customers)
    /\ LET customer == customers[gen_pc.i]
           drawn    == customer.health_score < 60
           n1       == PrngAdvance(np_random)
           n2       == PrngAdvance(n1)
           churn    == <<Pick(ChurnDraws(customer.health_score), n1),
                         Pick(ChurnDraws(customer.health_score), n2)>>
       IN  /\ calls' = calls \o
                 [j \in 1..calls_per_customer |->
                    [call_id              |-> <<"CALL", Len(calls) + (j - 1) + CallIdBase>>,
                     customer_id          |-> RowCustomerId(customer, gen_pc.i),
                     churn_risk_mentioned |-> churn[j]]]
           /\ np_random' = IF drawn THEN n2 ELSE np_random
    /\ gen_pc' = [gen_pc EXCEPT !.i = @ + 1]
    /\ UNCHANGED <<customers, interactions, feature_requests, py_random, seed_cfg, written>>
    /\ UNCHANGED <<ragVars, appVars, narVars, sideVars>>

\* generate_feature_requests, one customer: random.random() > 0.4 decides
\* whether the customer submits, np.random.randint(1, 5) how many
SeededFeatureRequests ==
    /\ gen_pc.op = "seeded_requests"
    /\ gen_pc.i <= Len(customers)
    /\ LET customer == customers[gen_pc.i]
           p1       == PrngAdvance(py_random)
           submits  == Pick(BOOLEAN, p1)
           n1       == PrngAdvance(np_random)
           n        == IF submits THEN Pick(NpRandInt(1, 5), n1) ELSE 0
       IN  /\ feature_requests' = feature_requests \o
                 [j \in 1..n |->
                    [request_id  |-> <<"FR", Len(feature_requests) + (j - 1) + RequestIdBase>>,
                     customer_id |-> RowCustomerId(customer, gen_pc.i)]]
           /\ py_random' = p1
           /\ np_random' = IF submits THEN n1 ELSE np_random
    /\ gen_pc' = [gen_pc EXCEPT !.i = @ + 1]
    /\ UNCHANGED <<customers, interactions, calls, seed_cfg, written>>
    /\ UNCHANGED <<ragVars, appVars, narVars, sideVars>>

\* A generate_* call returns and the next one starts
SeededNextTable ==
    /\ \/ gen_pc.op = "seeded_customers" /\ Len(customers) = seed_cfg.n
       \/ /\ gen_pc.op \in {"seeded_interactions", "seeded_calls"}
          /\ gen_pc.i = Len(customers) + 1
    /\ gen_pc' = [op |-> CASE gen_pc.op = "seeded_customers"    -> "seeded_interactions"
                          [] gen_pc.op = "seeded_interactions" -> "seeded_calls"
                          [] gen_pc.op = "seeded_calls"        -> "seeded_requests",
                  i  |-> 1]
    /\ UNCHANGED <<customers, interactions, calls, feature_requests>>
    /\ UNCHANGED <<ragVars, appVars, narVars, seedVars, sideVars>>

\* The four to_csv calls at the end of the run; the script can be run again
SeededWrite ==
    /\ gen_pc.op = "seeded_requests"
    /\ gen_pc.i = Len(customers) + 1
    /\ written' = Append(written, [customers        |-> customers,
                                   interactions     |-> interactions,
                                   calls            |-> calls,
                                   feature_requests |-> feature_requests])
    /\ gen_pc' = [op |-> "import", i |-> 0]
    /\ UNCHANGED <<customers, interactions, calls, feature_requests>>
    /\ UNCHANGED <<seed_cfg, np_random, py_random>>
    /\ UNCHANGED <<ragVars, appVars, narVars, sideVars>>

InitSeeded ==
    /\ customers = <<>> /\ interactions = <<>> /\ calls = <<>>
    /\ feature_requests = <<>> /\ gen_pc = [op |-> "import", i |-> 0]
    /\ seed_cfg \in [np : SeedDraws, py : SeedDraws, n : 1..n_customers]
    /\ np_random = Unseeded /\ py_random = Unseeded /\ written = <<>>
    /\ RagIdle /\ AppIdle /\ NarIdle /\ SideIdle

NextSeeded ==
    \/ SeededStart
    \/ SeededCustomer
    \/ SeededInteractions
    \/ SeededSalesCalls
    \/ SeededFeatureRequests
    \/ SeededNextTable
    \/ SeededWrite

SpecSeeded == InitSeeded /\ [][NextSeeded]_vars

Themes == {"ehr_integration", "expansion_opportunities"}

CommonKeys == {"doc_type", "content", "metadata"}

\* C21: after a run the file holds, line by line, one 'comprehensive_profile'
\* document per customer row, in row order and keyed by that row's
\* customer_id, followed by the thematic documents keyed by theme; every
\* line has doc_type, content and metadata and exactly one of customer_id
\* and theme; a second run leaves the lines of that run only.
C21_FileStructure ==
    rag_runs \in {"once", "again"} =>
        /\ Len(documents) >= Len(rag_customers)
        /\ Len(documents) <= Len(rag_customers) + Cardinality(Themes)
        /\ \A k \in DOMAIN documents :
             /\ CommonKeys \subseteq DOMAIN documents[k]
             /\ ("customer_id" \in DOMAIN documents[k]) # ("theme" \in DOMAIN documents[k])
             /\ IF k <= Len(rag_customers)
                THEN /\ documents[k].doc_type = "comprehensive_profile"
                     /\ "customer_id" \in DOMAIN documents[k]
                     /\ documents[k].customer_id = rag_customers[k].customer_id
                ELSE /\ documents[k].doc_type = "thematic_insight"
                     /\ "theme" \in DOMAIN documents[k]
                     /\ documents[k].theme \in Themes
        /\ \A j, k \in DOMAIN documents :
             (j < k /\ Len(rag_customers) < j) => documents[j].theme # documents[k].theme

\* The file after a second run, with a profile for each of several customer
\* rows and both thematic documents.
C21_Witness ==
    /\ rag_runs = "again"
    /\ Len(rag_customers) >= 2
    /\ Len(documents) = Len(rag_customers) + 2
    /\ documents[Len(documents)].theme = "expansion_opportunities"


\* ========================================================================
\* 7. The flat files between the four stages
\* ========================================================================
MaxRuns == 5

Stages == <<"entity_generator", "narrative_generator", "context_builder",
            "presentation_layer">>

\* generate_all_healthcare_data: the four to_csv calls
EntityOutputs ==
    {"healthcare_customers.csv", "healthcare_interactions.csv",
     "healthcare_calls.csv", "healthcare_feature_requests.csv"}

\* complete_data_generator.py __main__: the three read_csv calls
NarrativeInputs ==
    {"healthcare_customers.csv", "healthcare_interactions.csv", "healthcare_calls.csv"}

\* generate_complete_dataset: the five to_csv calls
NarrativeOutputs ==
    {"complete_usage_telemetry.csv", "complete_call_transcripts.csv",
     "complete_email_threads.csv", "complete_survey_verbatims.csv",
     "complete_outcomes_tracking.csv"}

\* The sample text files: open(..., 'w') creates sample_transcript.txt, and
\* transcripts.iloc[0] raises on an empty table before the second open.
NarrativeSamples(transcripts_empty) ==
    IF transcripts_empty THEN {"sample_transcript.txt"}
    ELSE {"sample_transcript.txt", "sample_email_thread.txt"}

BuilderInputsFromNarrative ==
    {"healthcare_customers.csv", "complete_call_transcripts.csv",
     "complete_email_threads.csv", "healthcare_feature_requests.csv"}

\* complete_rag_creator.py __main__: the four read_csv calls
BuilderInputs ==
    {"healthcare_customers.csv", "healthcare_interactions.csv",
     "healthcare_calls.csv", "healthcare_feature_requests.csv"}

\* save_all_documents: the jsonl file and a text file for each of all_docs[:3]
BuilderOutputs(n_docs) ==
    {"healthcare_rag_documents.jsonl"}
    \cup (IF n_docs >= 1 THEN {"sample_rag_doc_1.txt"} ELSE {})
    \cup (IF n_docs >= 2 THEN {"sample_rag_doc_2.txt"} ELSE {})
    \cup (IF n_docs >= 3 THEN {"sample_rag_doc_3.txt"} ELSE {})

\* load_data: the three read_csv calls; load_rag_documents: the jsonl file
AppCsvInputs ==
    {"healthcare_customers.csv", "healthcare_interactions.csv", "healthcare_calls.csv"}

AppDocumentInput == "healthcare_rag_documents.jsonl"

Files ==
    EntityOutputs \cup NarrativeOutputs \cup NarrativeSamples(FALSE)
    \cup BuilderOutputs(3)

Present(files) == \A f \in files : disk[f] # Absent

WriteFiles(stage, files) ==
    [f \in Files |-> IF f \in files THEN stage ELSE disk[f]]

ReadFiles(stage, files) == file_reads \cup {<<stage, f>> : f \in files}

\* healthcare_data_gen.py run as a script
RunEntityGenerator ==
    /\ Len(run_log) < MaxRuns
    /\ disk' = WriteFiles(Stages[1], EntityOutputs)
    /\ run_log' = Append(run_log, Stages[1])
    /\ UNCHANGED file_reads
    /\ UNCHANGED <<genVars, ragVars, appVars, narVars, seedVars>>
    /\ UNCHANGED <<chartVars, usageVars>>

\* complete_data_generator.py run as a script; read_csv raises when a file
\* is missing and nothing is written.
RunNarrativeGenerator ==
    /\ Len(run_log) < MaxRuns
    /\ Present(NarrativeInputs)
    /\ \E transcripts_empty \in BOOLEAN :
         disk' = WriteFiles(Stages[2],
                            NarrativeOutputs \cup NarrativeSamples(transcripts_empty))
    /\ file_reads' = ReadFiles(Stages[2], NarrativeInputs)
    /\ run_log' = Append(run_log, Stages[2])
    /\ UNCHANGED <<genVars, ragVars, appVars, narVars, seedVars>>
    /\ UNCHANGED <<chartVars, usageVars>>

\* complete_rag_creator.py run as a script
RunContextBuilder ==
    /\ Len(run_log) < MaxRuns
    /\ Present(BuilderInputs)
    /\ \E n_docs \in 0..3 :
         disk' = WriteFiles(Stages[3], BuilderOutputs(n_docs))
    /\ file_reads' = ReadFiles(Stages[3], BuilderInputs)
    /\ run_log' = Append(run_log, Stages[3])
    /\ UNCHANGED <<genVars, ragVars, appVars, narVars, seedVars>>
    /\ UNCHANGED <<chartVars, usageVars>>

\* app.py started: load_data returns None on FileNotFoundError, and
\* load_rag_documents returns [] when the jsonl file is missing.
RunPresentationLayer ==
    /\ Len(run_log) < MaxRuns
    /\ file_reads' = ReadFiles(Stages[4],
                        (IF Present(AppCsvInputs) THEN AppCsvInputs ELSE {})
                        \cup (IF Present({AppDocumentInput})
                              THEN {AppDocumentInput} ELSE {}))
    /\ run_log' = Append(run_log, Stages[4])
    /\ UNCHANGED disk
    /\ UNCHANGED <<genVars, ragVars, appVars, narVars, seedVars>>
    /\ UNCHANGED <<chartVars, usageVars>>

InitFlow ==
    /\ disk = [f \in Files |-> Absent]
    /\ file_reads = {}
    /\ run_log = <<>>
    /\ GenIdle /\ RagIdle /\ AppIdle /\ NarIdle /\ SeedIdle
    /\ ChartIdle /\ UsageIdle

NextFlow ==
    \/ RunEntityGenerator
    \/ RunNarrativeGenerator
    \/ RunContextBuilder
    \/ RunPresentationLayer

SpecFlow == InitFlow /\ [][NextFlow]_vars

StageIndex(stage) == CHOOSE k \in DOMAIN Stages : Stages[k] = stage

\* No stage writes a file that an earlier stage reads.
NoStageWritesEarlierInput ==
    \A r \in file_reads :
       disk[r[2]] # Absent => StageIndex(disk[r[2]]) < StageIndex(r[1])

\* C22: every file a stage reads was written by the stage immediately
\* before it, and the context builder reads files written by the narrative
\* generator.
C22_EachStageReadsPrevious ==
    /\ NoStageWritesEarlierInput
    /\ \A r \in file_reads : StageIndex(disk[r[2]]) = StageIndex(r[1]) - 1
    /\ Stages[3] \in Range(run_log) =>
           \E r \in file_reads : r[1] = Stages[3] /\ disk[r[2]] = Stages[2]


\* C22 as the code has it: no stage writes a file that an earlier stage
\* reads; the narrative generator and the context builder read only csv
\* files of the entity generator; the presentation layer reads csv files of
\* the entity generator and the jsonl file of the context builder; the files
\* of the narrative generator are read by no stage.
C22_OneWayFromEntityFiles ==
    /\ NoStageWritesEarlierInput
    /\ \A r \in file_reads :
         /\ disk[r[2]] # Stages[2]
         /\ r[1] \in {Stages[2], Stages[3]} => disk[r[2]] = Stages[1]
         /\ r[1] = Stages[4] =>
               disk[r[2]] = (IF r[2] = AppDocumentInput THEN Stages[3] ELSE Stages[1])

\* The four stages run in pipeline order, and the presentation layer has
\* read the csv files and the jsonl file.
C22_Witness ==
    /\ run_log = Stages
    /\ <<Stages[4], AppDocumentInput>> \in file_reads
    /\ <<Stages[4], "healthcare_calls.csv">> \in file_reads
    /\ <<Stages[3], "healthcare_feature_requests.csv">> \in file_reads
    /\ disk["complete_email_threads.csv"] = Stages[2]


\* ========================================================================
\* 8. Further claims on the presentation layer
\* ========================================================================
QuickInsightEvents == {"ask_ai", "strategy"}

\* The customer a Quick Insights question names.
CustomerAsked(message) ==
    CHOOSE k \in DOMAIN customers_df.rows :
        customers_df.rows[k].organization_name = message.content.org

\* C23: when the script run started by a Quick Insights button for customer c
\* has finished (the button's handler and the rerun it asks for), the
\* context scope is c.
C23_ButtonScopeSurvivesRerun ==
    event \in QuickInsightEvents =>
        current_context = customers_df.rows[CustomerAsked(messages[Len(messages)])].customer_id


\* C24: in every reachable transcript the roles alternate, starting with
\* 'user': odd positions hold user messages, even positions assistant
\* messages, so no two user messages are adjacent.
C24_RolesAlternate ==
    \A k \in DOMAIN messages :
       messages[k].role = (IF k % 2 = 1 THEN "user" ELSE "assistant")


\* C25: in a script run that processes a chat submission the context scope
\* is set: it is 'portfolio' or the customer_id of a row of the loaded
\* customer table.
C25_ContextNeverUnset ==
    event = "chat" =>
        /\ current_context # NoContext
        /\ \/ current_context = Portfolio
           \/ /\ customers_df.loaded
              /\ HasCustomer(current_context, customers_df.rows)

\* A chat submission answered in the scope of one customer.
C25_Witness ==
    /\ event = "chat"
    /\ outcome = "answered"
    /\ analysis_scope = "Specific Customer"
    /\ current_context # Portfolio
    /\ last_prompt.context.kind = "customer"


\* ========================================================================
\* 9. The profile of a customer for every health score
\* ========================================================================
\* health_score is an integer of 0..100
HealthScores == 0..100

\* One customer per table, with every other risk input at rest and with each
\* of them raised.
LabelCustomerTables ==
    {<<RagCustomer(0, h, flag, flag, "current", "None")>> :
        h \in HealthScores, flag \in BOOLEAN}

InitLabels ==
    /\ rag_customers \in LabelCustomerTables
    /\ rag_interactions = <<>>
    /\ rag_calls = <<>>
    /\ rag_requests = <<>>
    /\ documents = <<>>
    /\ rag_runs = "none"
    /\ GenIdle /\ AppIdle /\ NarIdle /\ SeedIdle /\ SideIdle

SpecLabels == InitLabels /\ [][NextRag]_vars

FactorTexts(d) ==
    {d.content.risk_factors[k].text : k \in DOMAIN d.content.risk_factors}

\* C26: in every profile the Account Health label is 'Critical' exactly when
\* the 'Critical health score (<50)' factor is raised, 'At Risk' exactly
\* when the 'At-risk health score (<70)' factor is raised, and 'Healthy'
\* exactly when neither is.
C26_LabelAgreesWithFactor ==
    \A k \in DOMAIN ProfileDocs :
       LET d == ProfileDocs[k]
           critical == "Critical health score (<50)" \in FactorTexts(d)
           at_risk  == "At-risk health score (<70)" \in FactorTexts(d)
       IN  /\ d.content.health_label = "Critical" <=> critical
           /\ d.content.health_label = "At Risk" <=> at_risk
           /\ d.content.health_label = "Healthy" <=> (~critical /\ ~at_risk)


\* ========================================================================
\* 10. The dashboard charts of the presentation layer
\* ========================================================================
\* ---- create_health_distribution_chart ------------------------------------------
HealthBins == <<0, 40, 60, 75, 100>>

HealthLabels ==
    <<"Critical (<40)", "At Risk (40-60)", "Stable (60-75)", "Healthy (75+)">>

NaN == "NaN"

\* pd.cut(x, bins, labels): the bin (bins[k], bins[k+1]] that holds x, closed
\* on the right and open on the left; NaN for a value in no bin
Cut(x, bins, labels) ==
    IF \E k \in DOMAIN labels : bins[k] < x /\ x <= bins[k + 1]
    THEN labels[CHOOSE k \in DOMAIN labels : bins[k] < x /\ x <= bins[k + 1]]
    ELSE NaN

HealthCategoryColumn(rows) ==
    [k \in DOMAIN rows |-> Cut(rows[k].health_score, HealthBins, HealthLabels)]

\* value_counts().sort_index() of a categorical column: a count for every
\* category, in category order; NaN is not counted
ValueCounts(column, labels) ==
    [k \in DOMAIN labels |->
        Cardinality({j \in DOMAIN column : column[j] = labels[k]})]

\* ---- create_mrr_at_risk_chart ----------------------------------------------------
RiskLabels ==
    <<"Critical (<40)", "High Risk (40-60)", "Medium Risk (60-75)", "Healthy (75+)">>

RiskCategoriesOpenBands(rows) ==
    <<SumMrr(SelectSeq(rows, LAMBDA c : c.health_score < 40)),
      SumMrr(SelectSeq(rows, LAMBDA c : c.health_score > 40 /\ c.health_score < 60)),
      SumMrr(SelectSeq(rows, LAMBDA c : c.health_score > 60 /\ c.health_score < 75)),
      SumMrr(SelectSeq(rows, LAMBDA c : c.health_score > 75))>>

\* The values of the risk_categories dict, in the order of its keys
RiskCategories(rows) ==
    <<SumMrr(SelectSeq(rows, LAMBDA c : c.health_score < 40)),
      SumMrr(SelectSeq(rows, LAMBDA c : c.health_score >= 40 /\ c.health_score < 60)),
      SumMrr(SelectSeq(rows, LAMBDA c : c.health_score >= 60 /\ c.health_score < 75)),
      SumMrr(SelectSeq(rows, LAMBDA c : c.health_score >= 75))>>

\* The two chart functions of the dashboard tab applied to customers_df
RenderDashboard ==
    /\ chart_rows # <<>>
    /\ health_category' = HealthCategoryColumn(chart_rows)
    /\ health_counts' = ValueCounts(health_category', HealthLabels)
    /\ risk_categories' = RiskCategories(chart_rows)
    /\ UNCHANGED chart_rows
    /\ UNCHANGED <<genVars, ragVars, appVars, narVars, seedVars, flowVars, usageVars>>

\* Health scores around the edges of the bins and at the ends of 0..100
ChartHealthDraws == {0, 1, 39, 40, 41, 59, 60, 61, 74, 75, 76, 100}

ChartTables ==
    {<<AppCustomer(0, h0, 12, 5000), AppCustomer(1, h1, 12, 15000)>> :
        h0 \in ChartHealthDraws, h1 \in ChartHealthDraws}

InitCharts ==
    /\ chart_rows \in ChartTables
    /\ health_category = <<>> /\ health_counts = <<>> /\ risk_categories = <<>>
    /\ GenIdle /\ RagIdle /\ AppIdle /\ NarIdle /\ SeedIdle
    /\ FlowIdle /\ UsageIdle

NextCharts == RenderDashboard

SpecCharts == InitCharts /\ [][NextCharts]_vars

\* ---- claims on the charts -----------------------------------------------------------
\* The position of the category the thresholds of create_mrr_at_risk_chart
\* and the category labels give a health score.
ThresholdBand(health_score) ==
    IF health_score < 40 THEN 1
    ELSE IF health_score < 60 THEN 2
    ELSE IF health_score < 75 THEN 3 ELSE 4

RECURSIVE SumSeq(_)
SumSeq(s) == IF s = <<>> THEN 0 ELSE s[1] + SumSeq(Tail(s))

\* C27: create_health_distribution_chart puts every customer in exactly one
\* of its four categories, the one its label and the thresholds of
\* create_mrr_at_risk_chart give: Critical for health < 40, the 40-60 band
\* for 40 <= health < 60, the 60-75 band for 60 <= health < 75, Healthy for
\* health >= 75.
C27_HealthCategoryMatchesThresholds ==
    health_category # <<>> =>
        /\ \A k \in DOMAIN chart_rows :
              health_category[k] = HealthLabels[ThresholdBand(chart_rows[k].health_score)]
        /\ SumSeq(health_counts) = Len(chart_rows)

\* C28: the four MRR sums of create_mrr_at_risk_chart add up to the total
\* MRR of the customer table.
C28_MrrCategoriesPartition ==
    risk_categories # <<>> =>
        SumSeq(risk_categories) = SumMrr(chart_rows)

\* The chart of a table with a customer on the edge of two categories and a
\* customer in another category.
C28_Witness ==
    /\ risk_categories # <<>>
    /\ chart_rows[1].health_score = 40
    /\ chart_rows[2].health_score = 75
    /\ risk_categories[2] = chart_rows[1].mrr
    /\ risk_categories[4] = chart_rows[2].mrr


\* ========================================================================
\* 11. Usage telemetry and outcomes of the narrative content generator
\* ========================================================================
TelemetryDays == 90

\* ---- generate_usage_telemetry ----------------------------------------------------
\* usage_multiplier of a customer and a day of range(90), as a fraction:
\* 1.2, 1.0 or 0.6 by health band, and for health_score < 50 multiplied by
\* (1 - (90 - day) / 180)
UsageMultiplierBand(health_score) ==
    IF health_score > 75 THEN 12
    ELSE IF health_score > 50 THEN 10 ELSE 6

UsageMultiplier(health_score, day) ==
    IF health_score < 50
    THEN [num |-> UsageMultiplierBand(health_score) * (180 - (TelemetryDays - day)),
          den |-> 1800]
    ELSE [num |-> UsageMultiplierBand(health_score) * 180, den |-> 1800]

\* The row of one day; date is end_date - timedelta(days=90-day), counted in
\* days from end_date
TelemetryRow(customer, day) ==
    [customer_id      |-> customer.customer_id,
     date             |-> 0 - (TelemetryDays - day),
     usage_multiplier |-> UsageMultiplier(customer.health_score, day)]

\* One iteration of `for _, customer in customers_df.iterrows()`
TelemetryCustomer ==
    /\ nar_pc = "loaded"
    /\ nar_i \in DOMAIN customers
    /\ telemetry' = telemetry \o [d \in 1..TelemetryDays |->
                                     TelemetryRow(customers[nar_i], d - 1)]
    /\ nar_i' = nar_i + 1
    /\ UNCHANGED <<outcomes, nar_pc, transcripts, emails>>
    /\ UNCHANGED <<genVars, ragVars, appVars, seedVars, flowVars, chartVars>>

\* return pd.DataFrame(telemetry)
TelemetryReturn ==
    /\ nar_pc = "loaded"
    /\ nar_i = Len(customers) + 1
    /\ nar_pc' = "telemetry"
    /\ nar_i' = 0
    /\ UNCHANGED <<telemetry, outcomes, transcripts, emails>>
    /\ UNCHANGED <<genVars, ragVars, appVars, seedVars, flowVars, chartVars>>

\* Health scores on both sides of the bands of the usage multiplier
UsageHealthDraws == {30, 45, 49, 50, 51, 75, 76, 90}

UsageCustomerTables ==
    {<<Customer(0, "Private Practice", 500, 47, h0),
       Customer(1, "Private Practice", 500, 47, h1)>> :
        h0 \in UsageHealthDraws, h1 \in UsageHealthDraws}

InitTelemetry ==
    /\ customers \in UsageCustomerTables
    /\ interactions = <<>> /\ calls = <<>> /\ feature_requests = <<>>
    /\ gen_pc = [op |-> "done", i |-> 1]
    /\ transcripts = <<>> /\ emails = <<>> /\ nar_pc = "loaded"
    /\ telemetry = <<>> /\ outcomes = <<>> /\ nar_i = 1
    /\ RagIdle /\ AppIdle /\ SeedIdle /\ FlowIdle /\ ChartIdle

NextTelemetry == TelemetryCustomer \/ TelemetryReturn

SpecTelemetry == InitTelemetry /\ [][NextTelemetry]_vars

HealthOfCustomer(cust_id) ==
    (CHOOSE c \in Range(customers) : c.customer_id = cust_id).health_score

\* C29: for a customer with health score below 50 the usage multiplier
\* never increases from a date to a later date over the 90 generated days.
C29_UsageDeclinesOverTime ==
    \A j, k \in DOMAIN telemetry :
       (/\ telemetry[j].customer_id = telemetry[k].customer_id
        /\ HealthOfCustomer(telemetry[j].customer_id) < 50
        /\ telemetry[j].date < telemetry[k].date)
       => telemetry[k].usage_multiplier.num * telemetry[j].usage_multiplier.den
            <= telemetry[j].usage_multiplier.num * telemetry[k].usage_multiplier.den


\* ---- generate_outcomes_tracking --------------------------------------------------
InsightIdBase == 5000

AtRiskOutcomeBelow == 60

ChurnedAtOrBelow == 30

\* random.randint(20, 50) after a successful intervention and
\* random.randint(-10, 10) after a failed one: the ends and a value between
SuccessChanges == {20, 41, 50}

FailureChanges == {0 - 10, 0, 10}

\* new_health: min(100, ...) after a success, max(0, ...) after a failure
NewHealth(intervention_success, health_score, health_improvement) ==
    IF intervention_success
    THEN Min(100, health_score + health_improvement)
    ELSE Max(0, health_score + health_improvement)

OutcomeStatus(intervention_success, new_health) ==
    IF intervention_success THEN "resolved"
    ELSE IF new_health > ChurnedAtOrBelow THEN "unresolved" ELSE "churned"

OutcomeRow(customer, position, intervention_success, health_improvement, expansion_chance) ==
    LET new_health == NewHealth(intervention_success, customer.health_score,
                                health_improvement)
        outcome_status == OutcomeStatus(intervention_success, new_health)
    IN  [insight_id          |-> <<"INS", position + InsightIdBase>>,
         customer_id         |-> customer.customer_id,
         risk_score          |-> 100 - customer.health_score,
         fix_completed       |-> intervention_success,
         outcome_status      |-> outcome_status,
         health_score_before |-> customer.health_score,
         health_score_after  |-> new_health,
         health_score_change |-> health_improvement,
         churn_prevented     |-> outcome_status = "resolved",
         expansion_occurred  |-> expansion_chance,
         mrr_retained        |-> IF outcome_status # "churned" THEN customer.mrr ELSE 0]

AtRiskCustomers(table) ==
    SelectSeq(table, LAMBDA c : c.health_score < AtRiskOutcomeBelow)

\* One iteration of `for _, customer in at_risk_customers.iterrows()`: a row
\* is appended when the customer has interactions
OutcomeCustomer ==
    /\ nar_pc = "surveys"
    /\ nar_i \in DOMAIN AtRiskCustomers(customers)
    /\ LET customer == AtRiskCustomers(customers)[nar_i]
           cust_interactions == RowsOf(interactions, customer.customer_id)
       IN  IF Len(cust_interactions) > 0
           THEN \E intervention_success \in BOOLEAN :
                \E health_improvement \in (IF intervention_success THEN SuccessChanges
                                           ELSE FailureChanges) :
                \E expansion_chance \in (IF intervention_success THEN BOOLEAN
                                         ELSE {FALSE}) :
                   outcomes' = Append(outcomes,
                                      OutcomeRow(customer, Len(outcomes),
                                                 intervention_success,
                                                 health_improvement, expansion_chance))
           ELSE UNCHANGED outcomes
    /\ nar_i' = nar_i + 1
    /\ UNCHANGED <<telemetry, nar_pc, transcripts, emails>>
    /\ UNCHANGED <<genVars, ragVars, appVars, seedVars, flowVars, chartVars>>

\* return pd.DataFrame(outcomes)
OutcomeReturn ==
    /\ nar_pc = "surveys"
    /\ nar_i = Len(AtRiskCustomers(customers)) + 1
    /\ nar_pc' = "outcomes"
    /\ nar_i' = 0
    /\ UNCHANGED <<telemetry, outcomes, transcripts, emails>>
    /\ UNCHANGED <<genVars, ragVars, appVars, seedVars, flowVars, chartVars>>

\* Health scores the entity generator writes, below and at the at-risk limit
OutcomeHealthDraws == {30, 40, 55, 59, 60}

\* Two customers; the first has a ticket, the second has one or none
InitOutcomes ==
    /\ \E h0 \in OutcomeHealthDraws, h1 \in OutcomeHealthDraws, second \in BOOLEAN :
          /\ customers = <<Customer(0, "Private Practice", 500, 47, h0),
                           Customer(1, "Private Practice", 500, 47, h1)>>
          /\ interactions =
                <<NarTicket(0, 0, "email", "negative", TRUE)>>
                \o (IF second THEN <<NarTicket(1, 1, "chat", "neutral", TRUE)>> ELSE <<>>)
    /\ calls = <<>> /\ feature_requests = <<>>
    /\ gen_pc = [op |-> "done", i |-> 1]
    /\ transcripts = <<>> /\ emails = <<>> /\ nar_pc = "surveys"
    /\ telemetry = <<>> /\ outcomes = <<>> /\ nar_i = 1
    /\ RagIdle /\ AppIdle /\ SeedIdle /\ FlowIdle /\ ChartIdle

NextOutcomes == OutcomeCustomer \/ OutcomeReturn

SpecOutcomes == InitOutcomes /\ [][NextOutcomes]_vars

\* The parts of C30 other than the sum: health_score_after lies in 0..100;
\* the status is 'resolved' exactly when the intervention succeeded and
\* otherwise 'churned' exactly when health_score_after <= 30; mrr_retained
\* is 0 exactly when the status is 'churned'.
OutcomeStatusConsistent(o) ==
    /\ o.health_score_after \in 0..100
    /\ o.outcome_status = "resolved" <=> o.fix_completed
    /\ ~o.fix_completed =>
          (o.outcome_status = "churned" <=> o.health_score_after <= ChurnedAtOrBelow)
    /\ o.mrr_retained = 0 <=> o.outcome_status = "churned"

OutcomeRecordsStatusConsistent ==
    \A k \in DOMAIN outcomes : OutcomeStatusConsistent(outcomes[k])

\* C30: every outcome record is consistent: health_score_after lies in
\* 0..100 and equals health_score_before + health_score_change; the status
\* is 'resolved' exactly when the intervention succeeded and otherwise
\* 'churned' exactly when health_score_after <= 30; mrr_retained is 0
\* exactly when the status is 'churned'.
C30_OutcomeRecordConsistent ==
    \A k \in DOMAIN outcomes :
       /\ OutcomeStatusConsistent(outcomes[k])
       /\ outcomes[k].health_score_after =
             outcomes[k].health_score_before + outcomes[k].health_score_change


=============================================================================
